---- MODULE Spec2Model ----
(***************************************************************************)
(* A model of the MariaDB binlog decoder (src/src/main.rs, service.rs,     *)
(* util.rs): the event iterator of main, the header and body readers, the  *)
(* Table-Map and row-event decoders and the table registry.                *)
(*                                                                         *)
(* Numbers.  The decoder reads u8/u16/u24/u32/u64 fields; TLC's integers   *)
(* have 31 bits.  An unsigned integer of w bytes is therefore kept as its  *)
(* w little-endian base-256 digits (a "numeral"), arithmetic on it is done *)
(* digit by digit with carry at the width of the Rust type, and a numeral  *)
(* is turned into an Int (Val) only after IsSmall has shown that it fits.  *)
(***************************************************************************)
EXTENDS Integers, Sequences, FiniteSets, TLC

VARIABLES
    file,           \* the bytes of the binlog file (the input; never written)
    build,          \* "debug" | "release": whether arithmetic overflow panics or wraps
    pc,             \* position in main: "magic" | "header" | "body" | "halt"
    status,         \* "running" | "done" (Ok(())) | "error" (Err returned) | "panic"
    offset,         \* main's cursor `offset` (u64 numeral)
    header,         \* the EventHeader read last (NoHeader before the first)
    body_length,    \* get_event_body's `body_length` as computed last (usize numeral)
    table_structs,  \* the table registry: table id numeral -> Table-Map entry
    row_locals,     \* the locals of the row decoder's last successful call
    emitted,        \* what main printed so far: headers and bodies, in order
    input,          \* a function applied on its own: its name and arguments
    output          \* ... and what it returned (NoValue before the call)

vars == <<file, build, pc, status, offset, header, body_length,
          table_structs, row_locals, emitted, input, output>>

-----------------------------------------------------------------------------
(* Bounds of the model. *)

\* The longest list of events a generated file holds.
MaxEvents == 3

\* The iterator is cut off after this many printed headers (a file whose
\* next_event_position points backwards is decoded for ever).
MaxHeaders == 4

\* The most bytes that follow the first byte of a buffer given to parse_lenenc.
MaxTail == 8

\* The most bytes of a buffer given to parse_bitmap.
MaxBitmapBytes == 2

\* The most bytes kept of an event body that is cut short.
MaxCut == 24
MaxWalkColumns == 3

-----------------------------------------------------------------------------
(* Numerals: little-endian base-256 digits. *)

Zeros(w) == [i \in 1..w |-> 0]

Pow256(k) == CASE k = 0 -> 1 [] k = 1 -> 256 [] k = 2 -> 65536 [] OTHER -> 16777216

\* The numeral of width w of an Int n, 0 <= n < 2^31.
FromInt(n, w) == [i \in 1..w |-> IF i <= 4 THEN (n \div Pow256(i - 1)) % 256 ELSE 0]

\* `x as u64` / `x as usize`: zero extension to w digits.
ZExt(d, w) == [i \in 1..w |-> IF i <= Len(d) THEN d[i] ELSE 0]

\* d < 2^24: the value fits an Int with room for sums of offsets.
IsSmall(d) == \A i \in DOMAIN d : i > 3 => d[i] = 0

Val(d) ==
    (IF Len(d) >= 1 THEN d[1] ELSE 0)
    + (IF Len(d) >= 2 THEN d[2] * 256 ELSE 0)
    + (IF Len(d) >= 3 THEN d[3] * 65536 ELSE 0)

\* Comparison of two numerals of the same width, most significant digit first.
RECURSIVE NumLessAt(_, _, _)
NumLessAt(a, b, i) ==
    IF i = 0 THEN FALSE
    ELSE IF a[i] # b[i] THEN a[i] < b[i]
    ELSE NumLessAt(a, b, i - 1)

NumLess(a, b) == NumLessAt(a, b, Len(a))
NumLeq(a, b) == ~NumLess(b, a)

\* d + k at the width of d, 0 <= k < 2^23: the digits of the wrapped sum and
\* whether the sum left the width (the overflow a debug build panics on).
RECURSIVE AddCarry(_, _, _)
AddCarry(d, k, i) ==
    IF i > Len(d) THEN [digits |-> <<>>, overflow |-> k > 0]
    ELSE LET s == d[i] + (k % 256)
             rest == AddCarry(d, (k \div 256) + (s \div 256), i + 1)
         IN  [digits |-> <<s % 256>> \o rest.digits, overflow |-> rest.overflow]

NumAdd(d, k) == AddCarry(d, k, 1)

\* d - k at the width of d, 0 <= k < 2^23: the digits of the wrapped difference
\* and whether it went below zero.
RECURSIVE SubBorrow(_, _, _)
SubBorrow(d, k, i) ==
    IF i > Len(d) THEN [digits |-> <<>>, overflow |-> k > 0]
    ELSE LET s == d[i] - (k % 256)
             rest == SubBorrow(d, (k \div 256) + (IF s < 0 THEN 1 ELSE 0), i + 1)
         IN  [digits |-> <<(s + 256) % 256>> \o rest.digits, overflow |-> rest.overflow]

NumSub(d, k) == SubBorrow(d, k, 1)

\* d / 8 (a logical shift right by three bits).
NumDiv8(d) ==
    [i \in 1..Len(d) |->
        (d[i] \div 8) + (IF i < Len(d) THEN (d[i + 1] % 8) * 32 ELSE 0)]

-----------------------------------------------------------------------------
(* Slices.  buffer[a..b] panics unless a <= b <= len. *)

SliceOk(buf, a, b) == a <= b /\ b <= Len(buf)
Slice(buf, a, b) == SubSeq(buf, a + 1, b)
Tail_(buf, a) == SubSeq(buf, a + 1, Len(buf))

\* buffer[a..a + n] for a length n held as a numeral: a length of 2^24 or more
\* ends beyond every buffer of the model (or wraps below a), and panics.
SliceLenOk(buf, a, n) == IsSmall(n) /\ SliceOk(buf, a, a + Val(n))

-----------------------------------------------------------------------------
(* Results.  A decoder returns Ok(value), returns Err(e) (which `?` hands to  *)
(* the caller) or panics (an out-of-range slice, an unwrap of None, an        *)
(* overflow in a debug build): the process then aborts.                      *)

Panic == [kind |-> "panic"]
Err == [kind |-> "err"]

\* Whether this build panics on arithmetic overflow (debug) or wraps (release).
OverflowPanics == build = "debug"

-----------------------------------------------------------------------------
(* util.rs: check_file_magic_number *)

HexChars == <<"0", "1", "2", "3", "4", "5", "6", "7",
              "8", "9", "A", "B", "C", "D", "E", "F">>

\* format!("{:02X}", v)
FormatHex02(v) == <<HexChars[(v \div 16) + 1], HexChars[(v % 16) + 1]>>

\* A to_lowercase that leaves every character as it is.
ToLowercase_identity(c) == c

ToLowercase(c) ==
    CASE c = "A" -> "a" [] c = "B" -> "b" [] c = "C" -> "c"
      [] c = "D" -> "d" [] c = "E" -> "e" [] c = "F" -> "f" [] OTHER -> c

RECURSIVE HexString(_)
HexString(bytes) ==
    IF bytes = <<>> THEN <<>>
    ELSE LET h == FormatHex02(Head(bytes))
         IN  <<ToLowercase(h[1]), ToLowercase(h[2])>> \o HexString(Tail(bytes))

MagicHex == <<"f", "e", "6", "2", "6", "9", "6", "e">>

\* read_exact of four bytes fails on a shorter file; otherwise the hex string of
\* the bytes is compared with "fe62696e".
check_file_magic_number(f) ==
    IF Len(f) < 4 THEN Err
    ELSE [kind |-> "ok", value |-> HexString(SubSeq(f, 1, 4)) = MagicHex]

-----------------------------------------------------------------------------
(* util.rs: parse_lenenc *)

\* A parse_lenenc that takes only two bytes of the three-byte form.
parse_lenenc_u24_as_u16(buffer) ==
    IF ~SliceOk(buffer, 0, 1) THEN Panic
    ELSE IF buffer[1] < 251 THEN
        [kind |-> "ok", value |-> ZExt(<<buffer[1]>>, 8), skip |-> 1]
    ELSE IF buffer[1] = 252 THEN
        IF ~SliceOk(buffer, 1, 3) THEN Panic
        ELSE [kind |-> "ok", value |-> ZExt(Slice(buffer, 1, 3), 8), skip |-> 3]
    ELSE IF buffer[1] = 253 THEN
        IF ~SliceOk(buffer, 1, 4) THEN Panic
        ELSE [kind |-> "ok", value |-> ZExt(Slice(buffer, 1, 3), 8), skip |-> 4]
    ELSE IF buffer[1] = 254 THEN
        IF ~SliceOk(buffer, 1, 9) THEN Panic
        ELSE [kind |-> "ok", value |-> Slice(buffer, 1, 9), skip |-> 9]
    ELSE Err

\* A parse_lenenc that reports eight consumed bytes for the nine-byte form.
parse_lenenc_skip_8(buffer) ==
    IF ~SliceOk(buffer, 0, 1) THEN Panic
    ELSE IF buffer[1] < 251 THEN
        [kind |-> "ok", value |-> ZExt(<<buffer[1]>>, 8), skip |-> 1]
    ELSE IF buffer[1] = 252 THEN
        IF ~SliceOk(buffer, 1, 3) THEN Panic
        ELSE [kind |-> "ok", value |-> ZExt(Slice(buffer, 1, 3), 8), skip |-> 3]
    ELSE IF buffer[1] = 253 THEN
        IF ~SliceOk(buffer, 1, 4) THEN Panic
        ELSE [kind |-> "ok", value |-> ZExt(Slice(buffer, 1, 4), 8), skip |-> 4]
    ELSE IF buffer[1] = 254 THEN
        IF ~SliceOk(buffer, 1, 9) THEN Panic
        ELSE [kind |-> "ok", value |-> Slice(buffer, 1, 9), skip |-> 8]
    ELSE Err

parse_lenenc(buffer) ==
    IF ~SliceOk(buffer, 0, 1) THEN Panic
    ELSE LET first_byte == buffer[1] IN
         IF first_byte < 251 THEN
            [kind |-> "ok", value |-> ZExt(<<first_byte>>, 8), skip |-> 1]
         ELSE IF first_byte = 252 THEN
            IF ~SliceOk(buffer, 1, 3) THEN Panic
            ELSE [kind |-> "ok", value |-> ZExt(Slice(buffer, 1, 3), 8), skip |-> 3]
         ELSE IF first_byte = 253 THEN
            IF ~SliceOk(buffer, 1, 4) THEN Panic
            ELSE [kind |-> "ok", value |-> ZExt(Slice(buffer, 1, 4) \o <<0>>, 8),
                  skip |-> 4]
         ELSE IF first_byte = 254 THEN
            IF ~SliceOk(buffer, 1, 9) THEN Panic
            ELSE [kind |-> "ok", value |-> Slice(buffer, 1, 9), skip |-> 9]
         ELSE Err

-----------------------------------------------------------------------------
(* util.rs: parse_bitmap *)

Pow2(k) == CASE k = 0 -> 1 [] k = 1 -> 2 [] k = 2 -> 4 [] k = 3 -> 8
             [] k = 4 -> 16 [] k = 5 -> 32 [] k = 6 -> 64 [] OTHER -> 128

\* format!("{:08b}", b): the eight binary digits, most significant first.
FormatBin08(b) == [j \in 1..8 |-> IF (b \div Pow2(8 - j)) % 2 = 1 THEN "1" ELSE "0"]

\* A reverse that leaves the order as it is (most significant bit first).
Reverse_none(s) == s

Reverse(s) == [j \in 1..Len(s) |-> s[Len(s) + 1 - j]]

\* One byte of the bitmap: the digits mapped to booleans, then reversed.
BitmapByte(b) == Reverse([j \in 1..8 |-> FormatBin08(b)[j] = "1"])

RECURSIVE BitmapBytes(_)
BitmapBytes(buffer) ==
    IF buffer = <<>> THEN <<>>
    ELSE BitmapByte(Head(buffer)) \o BitmapBytes(Tail(buffer))

\* Vec::truncate(n as usize): keeps the first n elements, all when n >= len.
Truncate(v, n) == IF IsSmall(n) /\ Val(n) < Len(v) THEN SubSeq(v, 1, Val(n)) ELSE v

parse_bitmap(buffer, truncate) == Truncate(BitmapBytes(buffer), truncate)

\* (number_of_columns + 7) / 8 in u64: the sum wraps in a release build and
\* panics in a debug build.
BitmapByteCount(number_of_columns) ==
    LET sum == NumAdd(number_of_columns, 7) IN
    IF sum.overflow /\ OverflowPanics THEN Panic
    ELSE [kind |-> "ok", value |-> NumDiv8(sum.digits)]

-----------------------------------------------------------------------------
(* String::from_utf8: whether the bytes are well-formed UTF-8. *)

Cont(b) == b >= 128 /\ b <= 191

RECURSIVE Utf8Valid(_)
Utf8Valid(b) ==
    IF b = <<>> THEN TRUE
    ELSE LET c == b[1]
             n == Len(b)
         IN  IF c < 128 THEN Utf8Valid(SubSeq(b, 2, n))
             ELSE IF c >= 194 /\ c <= 223 THEN
                n >= 2 /\ Cont(b[2]) /\ Utf8Valid(SubSeq(b, 3, n))
             ELSE IF c >= 224 /\ c <= 239 THEN
                /\ n >= 3
                /\ Cont(b[2]) /\ Cont(b[3])
                /\ (c = 224 => b[2] >= 160)
                /\ (c = 237 => b[2] <= 159)
                /\ Utf8Valid(SubSeq(b, 4, n))
             ELSE IF c >= 240 /\ c <= 244 THEN
                /\ n >= 4
                /\ Cont(b[2]) /\ Cont(b[3]) /\ Cont(b[4])
                /\ (c = 240 => b[2] >= 144)
                /\ (c = 244 => b[2] <= 143)
                /\ Utf8Valid(SubSeq(b, 5, n))
             ELSE FALSE

-----------------------------------------------------------------------------
(* The two catalogues the decoder loads from field_types.txt and            *)
(* metablock_mapping.txt (get_field_types_mapping, get_metadata_block_mapping). *)
(* Both files are taken to be present and well formed.                       *)

FieldTypeCodes == (0..19) \cup (246..255)

FieldTypeKnown(code) == code \in FieldTypeCodes

FieldTypeName(code) ==
    CASE code = 0 -> "MYSQL_TYPE_DECIMAL"
      [] code = 1 -> "MYSQL_TYPE_TINY"
      [] code = 2 -> "MYSQL_TYPE_SHORT"
      [] code = 3 -> "MYSQL_TYPE_LONG"
      [] code = 4 -> "MYSQL_TYPE_FLOAT"
      [] code = 5 -> "MYSQL_TYPE_DOUBLE"
      [] code = 6 -> "MYSQL_TYPE_NULL"
      [] code = 7 -> "MYSQL_TYPE_TIMESTAMP"
      [] code = 8 -> "MYSQL_TYPE_LONGLONG"
      [] code = 9 -> "MYSQL_TYPE_INT24"
      [] code = 10 -> "MYSQL_TYPE_DATE"
      [] code = 11 -> "MYSQL_TYPE_TIME"
      [] code = 12 -> "MYSQL_TYPE_DATETIME"
      [] code = 13 -> "MYSQL_TYPE_YEAR"
      [] code = 14 -> "MYSQL_TYPE_NEWDATE"
      [] code = 15 -> "MYSQL_TYPE_VARCHAR"
      [] code = 16 -> "MYSQL_TYPE_BIT"
      [] code = 17 -> "MYSQL_TYPE_TIMESTAMP2"
      [] code = 18 -> "MYSQL_TYPE_DATETIME2"
      [] code = 19 -> "MYSQL_TYPE_TIME2"
      [] code = 246 -> "MYSQL_TYPE_NEWDECIMAL"
      [] code = 247 -> "MYSQL_TYPE_ENUM"
      [] code = 248 -> "MYSQL_TYPE_SET"
      [] code = 249 -> "MYSQL_TYPE_TINY_BLOB"
      [] code = 250 -> "MYSQL_TYPE_MEDIUM_BLOB"
      [] code = 251 -> "MYSQL_TYPE_LONG_BLOB"
      [] code = 252 -> "MYSQL_TYPE_BLOB"
      [] code = 253 -> "MYSQL_TYPE_VAR_STRING"
      [] code = 254 -> "MYSQL_TYPE_STRING"
      [] OTHER -> "MYSQL_TYPE_GEOMETRY"

\* The width in bytes of a column type's metadata entry; 0 for a type the
\* catalogue does not list (.get(&content_type).or(Some(&0))).
MetadataWidth(code) ==
    CASE code \in {4, 5, 17, 18, 19, 252, 255} -> 1
      [] code \in {15, 16, 246, 253, 254} -> 2
      [] OTHER -> 0

-----------------------------------------------------------------------------
(* util.rs: parse_metadata_block.  The offset and the width are u8: their sum *)
(* panics in a debug build when it passes 255 and wraps otherwise, and the    *)
(* slice of the metadata block panics when it is out of range.  The rendered  *)
(* text is empty exactly when the width is 0.                                 *)

parse_metadata_block(metadata_block, metadata_block_offset, content_type) ==
    LET metadata_block_length == MetadataWidth(content_type)
        sum == metadata_block_offset + metadata_block_length
        end == sum % 256
    IN  IF sum > 255 /\ OverflowPanics THEN Panic
        ELSE IF ~SliceOk(metadata_block, metadata_block_offset, end) THEN Panic
        ELSE LET metadata_block_data == Slice(metadata_block, metadata_block_offset, end) IN
             IF metadata_block_length = 0 THEN
                [kind |-> "ok", empty |-> TRUE, raw |-> <<>>, skip |-> 0]
             ELSE IF content_type = 253 /\ ~FieldTypeKnown(metadata_block_data[1]) THEN
                Panic
             ELSE [kind |-> "ok", empty |-> FALSE, raw |-> metadata_block_data,
                   skip |-> metadata_block_length]

\* service.rs: one turn of the loop of deal_type_code_19 over the column types.
\* acc is the outcome so far, with the running u8 offset and the raw entries
\* stored; a turn after a failure does nothing, the loop having been left.
MetadataStep(acc, metadata_block, column_type) ==
    IF acc.kind # "ok" THEN acc
    ELSE LET r == parse_metadata_block(metadata_block, acc.offset, column_type) IN
         IF r.kind # "ok" THEN r
         ELSE IF r.empty THEN acc
         ELSE IF acc.offset + r.skip > 255 /\ OverflowPanics THEN Panic
         ELSE [kind |-> "ok", offset |-> (acc.offset + r.skip) % 256,
               raw |-> Append(acc.raw, r.raw)]

\* The turns for the columns a..b, in their order, none after a failure (the
\* range is halved to keep the evaluation shallow for a long vector).
RECURSIVE MetadataTurns(_, _, _, _, _)
MetadataTurns(column_types, metadata_block, a, b, acc) ==
    IF acc.kind # "ok" \/ a > b THEN acc
    ELSE IF a = b THEN MetadataStep(acc, metadata_block, column_types[a])
    ELSE MetadataTurns(column_types, metadata_block, (a + b) \div 2 + 1, b,
                       MetadataTurns(column_types, metadata_block, a, (a + b) \div 2,
                                     acc))

\* The outcome of the loop: the raw entries, or the failure.
WalkOutcome(end) == IF end.kind = "ok" THEN [kind |-> "ok", raw |-> end.raw] ELSE end

\* service.rs: the loop of deal_type_code_19 over the column types, from column
\* i on, with the running u8 offset and the raw entries stored so far.
MetadataWalk(column_types, metadata_block, i, metadata_block_offset, raw) ==
    WalkOutcome(MetadataTurns(column_types, metadata_block, i, Len(column_types),
                              [kind |-> "ok", offset |-> metadata_block_offset,
                               raw |-> raw]))

-----------------------------------------------------------------------------
(* service.rs: deal_type_code_19, the Table-Map decoder. *)

\* An insertion that keeps the entry a table id already has.
insert_if_absent(ts, table_id, event_body) ==
    [t \in DOMAIN ts \cup {table_id} |-> IF t \in DOMAIN ts THEN ts[t] ELSE event_body]

\* An insertion that drops the entries of every other table id.
insert_alone(ts, table_id, event_body) == [t \in {table_id} |-> event_body]

\* table_structs.entry(table_id).or_insert(body); *a = body
insert_or_replace(ts, table_id, event_body) ==
    [t \in DOMAIN ts \cup {table_id} |-> IF t = table_id THEN event_body ELSE ts[t]]

\* The tail of the decoder, from the metadata block on: o5 is the offset of the
\* metadata length.
TableMapTail(buffer, ts, pre, o5) ==
    IF o5 > Len(buffer) THEN Panic
    ELSE LET nm == parse_lenenc(Tail_(buffer, o5)) IN
    IF nm.kind # "ok" THEN nm
    ELSE LET o6 == o5 + nm.skip IN
    IF ~SliceLenOk(buffer, o6, nm.value) THEN Panic
    ELSE LET metadata_block == Slice(buffer, o6, o6 + Val(nm.value))
             o7 == o6 + Val(nm.value)
             column_types == pre.column_types
             number_of_columns == pre.number_of_columns
             walk == MetadataWalk(column_types, metadata_block, 1, 0, <<>>)
         IN
    IF walk.kind # "ok" THEN walk
    ELSE LET n_byte == BitmapByteCount(number_of_columns) IN
    IF n_byte.kind # "ok" THEN n_byte
    ELSE IF ~SliceLenOk(buffer, o7, n_byte.value) THEN Panic
    ELSE LET event_body ==
                [type_code |-> 19,
                 table_id |-> pre.table_id,
                 reserved_for_future_use |-> pre.reserved_for_future_use,
                 database_name |-> pre.database_name,
                 table_name |-> pre.table_name,
                 number_of_columns |-> number_of_columns,
                 column_types |-> column_types,
                 column_types_string_for_human |->
                    [i \in 1..Len(column_types) |-> FieldTypeName(column_types[i])],
                 number_of_metadata_block |-> nm.value,
                 metadata_block |-> metadata_block,
                 metadata_block_data_raw |-> walk.raw,
                 columns_can_be_null |->
                    parse_bitmap(Slice(buffer, o7, o7 + Val(n_byte.value)),
                                 number_of_columns),
                 optional_metadata_block |-> Tail_(buffer, o7)]
         IN  [kind |-> "ok", body |-> event_body,
              table_structs |-> insert_or_replace(ts, pre.table_id, event_body)]

deal_type_code_19(buffer, ts) ==
    IF ~SliceOk(buffer, 0, 6) \/ ~SliceOk(buffer, 6, 8) \/ ~SliceOk(buffer, 8, 9)
    THEN Panic
    ELSE LET table_id == Slice(buffer, 0, 6) \o <<0, 0>>
             reserved == Slice(buffer, 6, 8)
             database_name_length == buffer[9]
             o1 == 9 + database_name_length
         IN
    IF ~SliceOk(buffer, 9, o1) THEN Panic
    ELSE IF ~Utf8Valid(Slice(buffer, 9, o1)) THEN Err
    ELSE IF ~SliceOk(buffer, o1 + 1, o1 + 2) THEN Panic
    ELSE LET table_name_length == buffer[o1 + 2]
             o2 == o1 + 2
             o3 == o2 + table_name_length
         IN
    IF ~SliceOk(buffer, o2, o3) THEN Panic
    ELSE IF ~Utf8Valid(Slice(buffer, o2, o3)) THEN Err
    ELSE IF o3 + 1 > Len(buffer) THEN Panic
    ELSE LET nc == parse_lenenc(Tail_(buffer, o3 + 1)) IN
    IF nc.kind # "ok" THEN nc
    ELSE LET o4 == o3 + 1 + nc.skip IN
    IF ~SliceLenOk(buffer, o4, nc.value) THEN Panic
    ELSE LET column_types == Slice(buffer, o4, o4 + Val(nc.value)) IN
    IF \E i \in DOMAIN column_types : ~FieldTypeKnown(column_types[i]) THEN Panic
    ELSE TableMapTail(buffer, ts,
                      [table_id |-> table_id,
                       reserved_for_future_use |-> reserved,
                       database_name |-> Slice(buffer, 9, o1),
                       table_name |-> Slice(buffer, o2, o3),
                       number_of_columns |-> nc.value,
                       column_types |-> column_types],
                      o4 + Val(nc.value))

-----------------------------------------------------------------------------
(* util.rs: the column-value decoders of parse_column_data_for_row_event.    *)
(* A decoded value is kept as the column's type name with the bytes it was   *)
(* decoded from.                                                             *)

should_be_decode_from_table_event_data_type ==
    {"MYSQL_TYPE_BIT", "MYSQL_TYPE_ENUM", "MYSQL_TYPE_SET", "MYSQL_TYPE_NEWDECIMAL",
     "MYSQL_TYPE_DECIMAL", "MYSQL_TYPE_VARCHAR", "MYSQL_TYPE_VAR_STRING",
     "MYSQL_TYPE_STRING", "MYSQL_TYPE_TINY_BLOB", "MYSQL_TYPE_MEDIUM_BLOB",
     "MYSQL_TYPE_LONG_BLOB", "MYSQL_TYPE_BLOB", "MYSQL_TYPE_TIMESTAMP2",
     "MYSQL_TYPE_DATETIME2", "MYSQL_TYPE_TIME2", "MYSQL_TYPE_FLOAT",
     "MYSQL_TYPE_DOUBLE"}

\* FIXED_LENGTH_DATA_TYPE.get(name).unwrap_or(&0)
FIXED_LENGTH_DATA_TYPE(name) ==
    CASE name = "MYSQL_TYPE_NULL" -> 0
      [] name = "MYSQL_TYPE_TINY" -> 1
      [] name \in {"MYSQL_TYPE_YEAR", "MYSQL_TYPE_SHORT"} -> 2
      [] name = "MYSQL_TYPE_INT24" -> 3
      [] name \in {"MYSQL_TYPE_LONG", "MYSQL_TYPE_FLOAT"} -> 4
      [] name \in {"MYSQL_TYPE_LONGLONG", "MYSQL_TYPE_DOUBLE"} -> 8
      [] OTHER -> 0

\* A value of n bytes at the offset: the slice panics when the buffer is short.
FixedValue(name, buffer, off, n, advance) ==
    IF ~SliceOk(buffer, off, off + n) THEN Panic
    ELSE [kind |-> "ok", value |-> [type |-> name, raw |-> Slice(buffer, off, off + n)],
          offset |-> off + advance]

parse_quantity_of_bytes_for_decimal_part(n) == (n \div 9) * 4 + ((n % 9) + 1) \div 2

DecimalChars == <<"0", "1", "2", "3", "4", "5", "6", "7", "8", "9">>

\* One step of the long division by ten of big-endian bytes: the quotient's
\* bytes and the remainder.
RECURSIVE DivMod10(_, _, _, _)
DivMod10(bytes, i, carry, q) ==
    IF i > Len(bytes) THEN [q |-> q, r |-> carry]
    ELSE DivMod10(bytes, i + 1, (carry * 256 + bytes[i]) % 10,
                  Append(q, (carry * 256 + bytes[i]) \div 10))

\* The digits of a quotient with its remainder's digit after them.
RECURSIVE U32Digits(_)
U32Digits(d) ==
    IF \A i \in DOMAIN d.q : d.q[i] = 0 THEN <<DecimalChars[d.r + 1]>>
    ELSE U32Digits(DivMod10(d.q, 1, 0, <<>>)) \o <<DecimalChars[d.r + 1]>>

\* u32::from_be_bytes(..).to_string(): the decimal digits, no leading zeros.
U32ToString(bytes) == U32Digits(DivMod10(bytes, 1, 0, <<>>))

\* The groups of four bytes from the i-th on, rendered and joined.
RECURSIVE JoinGroups(_, _)
JoinGroups(data, i) ==
    IF 4 * i >= Len(data) THEN <<>>
    ELSE U32ToString(SubSeq(data, 4 * i + 1, 4 * i + 4)) \o JoinGroups(data, i + 1)

\* parse_numberic_for_decimal: zero bytes are put in front up to a multiple of
\* four, then every four bytes are a big-endian u32.
parse_numberic_for_decimal(buffer) ==
    JoinGroups(Zeros((4 - (Len(buffer) % 4)) % 4) \o buffer, 0)

\* The sign is the top bit of the first byte (clear = negative): a negative
\* value has all its bytes inverted, then the top bit of the first byte is
\* flipped.  The sign itself is used for nothing else.
Invert(bytes) == [i \in DOMAIN bytes |-> 255 - bytes[i]]

FlipTopBit(bytes) == [bytes EXCEPT ![1] = (@ + 128) % 256]

Unpack(bytes) ==
    IF bytes = <<>> THEN bytes
    ELSE FlipTopBit(IF bytes[1] < 128 THEN Invert(bytes) ELSE bytes)

\* The integer digits, a ".", the fractional digits.
Numberic(bytes, integer_part_byte_n) ==
    parse_numberic_for_decimal(SubSeq(bytes, 1, integer_part_byte_n))
        \o <<".">>
        \o parse_numberic_for_decimal(SubSeq(bytes, integer_part_byte_n + 1, Len(bytes)))

\* bin_to_decimal: precision - decimals is a usize; below zero it panics in a
\* debug build and wraps to a length no buffer has in a release build, where the
\* slices (or the inversion loop) then panic.
bin_to_decimal(buffer, precision, decimals) ==
    IF Len(buffer) = 0 THEN Panic
    ELSE IF precision < decimals THEN Panic
    ELSE LET integer_part_byte_n ==
                parse_quantity_of_bytes_for_decimal_part(precision - decimals)
             decimal_part_byte_n == parse_quantity_of_bytes_for_decimal_part(decimals)
             total_byte_n == integer_part_byte_n + decimal_part_byte_n
         IN  IF total_byte_n > Len(buffer) THEN Panic
             ELSE [kind |-> "ok",
                   value |-> [type |-> "MYSQL_TYPE_NEWDECIMAL",
                              raw |-> Numberic(Unpack(Slice(buffer, 0, total_byte_n)),
                                               integer_part_byte_n)],
                   skip |-> total_byte_n]

\* {} of a small integer: its decimal digits.
RECURSIVE IntDigits(_)
IntDigits(n) ==
    IF n < 10 THEN <<DecimalChars[n + 1]>>
    ELSE IntDigits(n \div 10) \o <<DecimalChars[(n % 10) + 1]>>

\* {:02}: at least two digits.
Pad02(n) == IF n < 10 THEN <<"0">> \o IntDigits(n) ELSE IntDigits(n)

\* The long division of big-endian bytes by d (d < 2^23): the quotient's bytes
\* and the remainder.
RECURSIVE DivModSmall(_, _, _, _, _)
DivModSmall(bytes, i, carry, q, d) ==
    IF i > Len(bytes) THEN [q |-> q, r |-> carry]
    ELSE DivModSmall(bytes, i + 1, (carry * 256 + bytes[i]) % d,
                     Append(q, (carry * 256 + bytes[i]) \div d), d)

\* The TIME2 arm on three bytes, big-endian u: u - 0x800000 is a u32
\* subtraction, which below zero panics in a debug build and wraps in a release
\* build, where the cast to i32 gives the negative difference that is then
\* negated.  The third placeholder of the format string is {02}, the argument
\* of index 2 with no width: the second is not padded.
Time2Val(u) == IF u >= 8388608 THEN u - 8388608 ELSE 8388608 - u

Time2Text(val) ==
    Pad02((val \div 4096) % 1024) \o <<":">> \o Pad02((val \div 64) % 64)
        \o <<":">> \o IntDigits(val % 64)

\* bits.load_be::<u64>() - 0x8000000000 on five bytes, as a little-endian u64
\* numeral: below zero the difference wraps modulo 2^64 (release build).
Datetime2Val(b) ==
    IF b[1] >= 128 THEN <<b[5], b[4], b[3], b[2], b[1] - 128, 0, 0, 0>>
    ELSE <<b[5], b[4], b[3], b[2], b[1] + 128, 255, 255, 255>>

\* The text of year and month, given val >> 22 (big-endian bytes) divided by 13.
YearMonthText(ym) == U32ToString(ym.q) \o <<"-">> \o Pad02(ym.r)

\* The text of day and time, given val % 2^22: the day is its bits 17..21,
\* time_val its low 17 bits.
DayTimeText(low) ==
    Pad02(low \div 131072) \o <<" ">>
        \o Pad02(((low % 131072) \div 4096) % 4096) \o <<":">>
        \o Pad02(((low % 131072) \div 64) % 64) \o <<":">>
        \o Pad02((low % 131072) % 64)

\* "{}-{:02}-{:02} {:02}:{:02}:{:02}" of year, month, day, hour, minute, second,
\* given val split at bit 22.
Datetime2Split(d22) ==
    YearMonthText(DivModSmall(d22.q, 1, 0, <<>>, 13)) \o <<"-">> \o DayTimeText(d22.r)

Datetime2Text(val) == Datetime2Split(DivModSmall(Reverse(val), 1, 0, <<>>, 4194304))

\* BASE64_STANDARD.encode, as ASCII codes.
B64Char(v) ==
    IF v < 26 THEN 65 + v
    ELSE IF v < 52 THEN 97 + (v - 26)
    ELSE IF v < 62 THEN 48 + (v - 52)
    ELSE IF v = 62 THEN 43 ELSE 47

RECURSIVE Base64(_)
Base64(b) ==
    IF b = <<>> THEN <<>>
    ELSE IF Len(b) = 1 THEN
        <<B64Char(b[1] \div 4), B64Char((b[1] % 4) * 16), 61, 61>>
    ELSE IF Len(b) = 2 THEN
        <<B64Char(b[1] \div 4), B64Char((b[1] % 4) * 16 + b[2] \div 16),
          B64Char((b[2] % 16) * 4), 61>>
    ELSE <<B64Char(b[1] \div 4), B64Char((b[1] % 4) * 16 + b[2] \div 16),
           B64Char((b[2] % 16) * 4 + b[3] \div 64), B64Char(b[3] % 64)>>
            \o Base64(SubSeq(b, 4, Len(b)))

\* "this is a String, value is `" and "this is not a String, value with base64
\* is ", as ASCII codes.
IsStringPrefix ==
    <<116, 104, 105, 115, 32, 105, 115, 32, 97, 32, 83, 116, 114, 105, 110, 103,
      44, 32, 118, 97, 108, 117, 101, 32, 105, 115, 32, 96>>

NotStringPrefix ==
    <<116, 104, 105, 115, 32, 105, 115, 32, 110, 111, 116, 32, 97, 32, 83, 116,
      114, 105, 110, 103, 44, 32, 118, 97, 108, 117, 101, 32, 119, 105, 116, 104,
      32, 98, 97, 115, 101, 54, 52, 32, 105, 115, 32>>

\* try_convert_binary_to_string: the bytes of the String it returns.
try_convert_binary_to_string(buffer) ==
    IF Utf8Valid(buffer) THEN IsStringPrefix \o buffer \o <<96>>
    ELSE NotStringPrefix \o Base64(buffer)

\* The length prefix of a VARCHAR or BLOB value (n bytes, little-endian) and
\* the payload that follows it.
LengthPrefixed(name, buffer, off, n) ==
    IF ~SliceOk(buffer, off, off + n) THEN Panic
    ELSE LET length == Slice(buffer, off, off + n) IN
         IF ~SliceLenOk(buffer, off + n, length) THEN Panic
         ELSE [kind |-> "ok",
               value |-> [type |-> name,
                          raw |-> try_convert_binary_to_string(
                                      Slice(buffer, off + n, off + n + Val(length)))],
               offset |-> off + n + Val(length)]

\* One non-NULL column: meta is <<entry>> when the metadata iterator gave an
\* entry (or the fake empty one), <<>> when it was exhausted (None).
DecodeColumn(name, meta, buffer, off) ==
    CASE name \in {"MYSQL_TYPE_TINY", "MYSQL_TYPE_SHORT", "MYSQL_TYPE_LONG",
                   "MYSQL_TYPE_LONGLONG", "MYSQL_TYPE_FLOAT", "MYSQL_TYPE_DOUBLE"} ->
            FixedValue(name, buffer, off, FIXED_LENGTH_DATA_TYPE(name),
                       FIXED_LENGTH_DATA_TYPE(name))
      [] name = "MYSQL_TYPE_NEWDECIMAL" ->
            IF meta = <<>> \/ off > Len(buffer) THEN Panic
            ELSE IF Len(meta[1]) < 2 THEN Panic
            ELSE LET r == bin_to_decimal(Tail_(buffer, off), meta[1][1], meta[1][2]) IN
                 IF r.kind # "ok" THEN r
                 ELSE [kind |-> "ok", value |-> r.value, offset |-> off + r.skip]
      [] name = "MYSQL_TYPE_VARCHAR" ->
            IF meta = <<>> THEN Panic
            ELSE IF Len(meta[1]) # 2 THEN Panic
            ELSE LengthPrefixed(name, buffer, off,
                                IF Val(meta[1]) > 255 THEN 2 ELSE 1)
      [] name = "MYSQL_TYPE_DATE" -> FixedValue(name, buffer, off, 3, 3)
      [] name = "MYSQL_TYPE_TIME2" ->
            IF ~SliceOk(buffer, off, off + 3) THEN Panic
            ELSE IF buffer[off + 1] < 128 /\ OverflowPanics THEN Panic
            ELSE [kind |-> "ok",
                  value |-> [type |-> name,
                             raw |-> Time2Text(Time2Val(
                                        buffer[off + 1] * 65536 + buffer[off + 2] * 256
                                        + buffer[off + 3]))],
                  offset |-> off + 3]
      [] name = "MYSQL_TYPE_DATETIME2" ->
            IF ~SliceOk(buffer, off, off + 5) THEN Panic
            ELSE IF buffer[off + 1] < 128 /\ OverflowPanics THEN Panic
            ELSE [kind |-> "ok",
                  value |-> [type |-> name,
                             raw |-> Datetime2Text(Datetime2Val(
                                        Slice(buffer, off, off + 5)))],
                  offset |-> off + 5]
      [] name = "MYSQL_TYPE_TIMESTAMP2" -> FixedValue(name, buffer, off, 4, 0)
      [] name = "MYSQL_TYPE_BLOB" ->
            IF meta = <<>> THEN Panic
            ELSE IF Len(meta[1]) = 0 THEN Panic
            ELSE IF meta[1][1] \notin 1..4 THEN Panic
            ELSE LengthPrefixed(name, buffer, off, meta[1][1])
      [] OTHER ->
            [kind |-> "ok", value |-> [type |-> "not implement", raw |-> <<>>],
             offset |-> off]

\* The loop of parse_column_data_for_row_event from column i on: off is the
\* offset in the buffer, mi the number of metadata entries the iterator has
\* given out, data the values pushed so far, and used the value
\* metadata_block_data_raw had in each iteration so far (<<entry>>, or <<>> for
\* None).
RECURSIVE ColumnWalk(_, _, _, _, _, _, _, _)
ColumnWalk(buffer, ti, null_bitmap, i, off, mi, data, used) ==
    IF i > Len(null_bitmap) THEN
        [kind |-> "ok", column_data |-> data, skip |-> off, metadata_used |-> used]
    ELSE IF i > Len(ti.column_types_string_for_human) THEN Panic
    ELSE LET name == ti.column_types_string_for_human[i]
             uses == name \in should_be_decode_from_table_event_data_type
             meta == IF ~uses THEN <<(<<>>)>>
                     ELSE IF mi < Len(ti.metadata_block_data_raw)
                          THEN <<ti.metadata_block_data_raw[mi + 1]>>
                          ELSE <<>>
             mi2 == IF uses /\ mi < Len(ti.metadata_block_data_raw) THEN mi + 1 ELSE mi
         IN  IF null_bitmap[i] THEN
                ColumnWalk(buffer, ti, null_bitmap, i + 1, off, mi2, data,
                           Append(used, meta))
             ELSE LET r == DecodeColumn(name, meta, buffer, off) IN
                  IF r.kind # "ok" THEN r
                  ELSE ColumnWalk(buffer, ti, null_bitmap, i + 1, r.offset, mi2,
                                  Append(data, r.value), Append(used, meta))

parse_column_data_for_row_event(buffer, ti, null_bitmap) ==
    ColumnWalk(buffer, ti, null_bitmap, 1, 0, 0, <<>>, <<>>)

-----------------------------------------------------------------------------
(* service.rs: deal_type_code_23_to_25, the row-event decoder.  Besides the  *)
(* body it reports its locals: the byte count of each bitmap and the         *)
(* registry entry it decoded the column values against.                      *)

NoValue == <<>>

\* An UPDATE decoder that keeps the after-image's null bitmap and drops its
\* column values.
AfterImage_without_values(basic, locals, pre, null_bitmap_for_update, cdu) ==
    IF cdu.kind # "ok" THEN cdu
    ELSE [kind |-> "ok",
          body |-> [basic EXCEPT
                      !.null_bitmap_for_update = <<null_bitmap_for_update>>],
          locals |-> [locals EXCEPT
                      !.null_bitmap_for_update_n_byte = <<pre.n_byte>>,
                      !.metadata_used_for_update = <<cdu.metadata_used>>]]

\* An UPDATE's after-image once its column values cdu have been decoded.
AfterImage(basic, locals, pre, null_bitmap_for_update, cdu) ==
    IF cdu.kind # "ok" THEN cdu
    ELSE [kind |-> "ok",
          body |-> [basic EXCEPT
                      !.null_bitmap_for_update = <<null_bitmap_for_update>>,
                      !.column_data_for_update = <<cdu.column_data>>],
          locals |-> [locals EXCEPT
                      !.null_bitmap_for_update_n_byte = <<pre.n_byte>>,
                      !.metadata_used_for_update = <<cdu.metadata_used>>]]

\* The null bitmap of the after-image at offset o5, then its column values.
UpdateImage(buffer, ti, pre, o5, basic, locals) ==
    IF ~SliceLenOk(buffer, o5, pre.n_byte) THEN Panic
    ELSE AfterImage(basic, locals, pre,
                    parse_bitmap(Slice(buffer, o5, o5 + Val(pre.n_byte)),
                                 pre.number_of_columns),
                    parse_column_data_for_row_event(
                        Tail_(buffer, o5 + Val(pre.n_byte)), ti,
                        parse_bitmap(Slice(buffer, o5, o5 + Val(pre.n_byte)),
                                     pre.number_of_columns)))

\* The body once the column values cd of the first image have been decoded
\* against the registry entry ti; o4 is the offset they were read from.
BeforeImage(buffer, type_code, ti, pre, o4, cd) ==
    IF cd.kind # "ok" THEN cd
    ELSE IF type_code # 24 THEN
        [kind |-> "ok",
         body |-> [type_code |-> type_code,
                   table_id |-> pre.table_id,
                   flags |-> pre.flags,
                   number_of_columns |-> pre.number_of_columns,
                   columns_used |-> pre.columns_used,
                   columns_used_for_update |-> pre.columns_used_for_update,
                   null_bitmap |-> pre.null_bitmap,
                   column_data |-> cd.column_data,
                   null_bitmap_for_update |-> NoValue,
                   column_data_for_update |-> NoValue],
         locals |-> [table_info |-> ti,
                     columns_used_n_byte |-> pre.n_byte,
                     columns_used_for_update_n_byte |-> NoValue,
                     null_bitmap_n_byte |-> pre.n_byte,
                     null_bitmap_for_update_n_byte |-> NoValue,
                     column_data_at |-> o4,
                     column_data_end |-> o4 + cd.skip,
                     metadata_used |-> cd.metadata_used,
                     metadata_used_for_update |-> NoValue]]
    ELSE UpdateImage(buffer, ti, pre, o4 + cd.skip,
                     [type_code |-> type_code,
                      table_id |-> pre.table_id,
                      flags |-> pre.flags,
                      number_of_columns |-> pre.number_of_columns,
                      columns_used |-> pre.columns_used,
                      columns_used_for_update |-> pre.columns_used_for_update,
                      null_bitmap |-> pre.null_bitmap,
                      column_data |-> cd.column_data,
                      null_bitmap_for_update |-> NoValue,
                      column_data_for_update |-> NoValue],
                     [table_info |-> ti,
                      columns_used_n_byte |-> pre.n_byte,
                      columns_used_for_update_n_byte |-> <<pre.n_byte>>,
                      null_bitmap_n_byte |-> pre.n_byte,
                      null_bitmap_for_update_n_byte |-> NoValue,
                      column_data_at |-> o4,
                      column_data_end |-> o4 + cd.skip,
                      metadata_used |-> cd.metadata_used,
                      metadata_used_for_update |-> NoValue])

\* table_structs.get(&table_id).unwrap(): a table id without an entry panics.
\* o4 is the offset after the null bitmap.
RowImages(buffer, type_code, ts, pre, o4) ==
    IF pre.table_id \notin DOMAIN ts THEN Panic
    ELSE BeforeImage(buffer, type_code, ts[pre.table_id], pre, o4,
                     parse_column_data_for_row_event(Tail_(buffer, o4),
                                                     ts[pre.table_id],
                                                     pre.null_bitmap))

deal_type_code_23_to_25(buffer, type_code, ts) ==
    IF ~SliceOk(buffer, 0, 6) \/ ~SliceOk(buffer, 6, 8) THEN Panic
    ELSE LET nc == parse_lenenc(Tail_(buffer, 8)) IN
    IF nc.kind # "ok" THEN nc
    ELSE LET number_of_columns == nc.value
             o1 == 8 + nc.skip
             n_byte == BitmapByteCount(number_of_columns)
         IN
    IF n_byte.kind # "ok" THEN n_byte
    ELSE IF ~SliceLenOk(buffer, o1, n_byte.value) THEN Panic
    ELSE LET n == Val(n_byte.value)
             o2 == o1 + n
             o3 == IF type_code = 24 THEN o2 + n ELSE o2
         IN
    IF type_code = 24 /\ ~SliceOk(buffer, o2, o2 + n) THEN Panic
    ELSE IF ~SliceOk(buffer, o3, o3 + n) THEN Panic
    ELSE RowImages(buffer, type_code, ts,
                   [table_id |-> Slice(buffer, 0, 6) \o <<0, 0>>,
                    flags |-> Slice(buffer, 6, 8),
                    number_of_columns |-> number_of_columns,
                    n_byte |-> n_byte.value,
                    columns_used |->
                        parse_bitmap(Slice(buffer, o1, o2), number_of_columns),
                    columns_used_for_update |->
                        IF type_code = 24
                        THEN <<parse_bitmap(Slice(buffer, o2, o3), number_of_columns)>>
                        ELSE NoValue,
                    null_bitmap |->
                        parse_bitmap(Slice(buffer, o3, o3 + n), number_of_columns)],
                   o3 + n)

-----------------------------------------------------------------------------
(* service.rs: the decoders of the other event types. *)

Ok(body) == [kind |-> "ok", body |-> body]

\* .trim_end_matches(char::from(0))
RECURSIVE TrimNul(_)
TrimNul(b) ==
    IF b # <<>> /\ b[Len(b)] = 0 THEN TrimNul(SubSeq(b, 1, Len(b) - 1)) ELSE b

\* Whether bit `mask` (a power of two) is set in the byte.
BitSet(byte, mask) == (byte \div mask) % 2 = 1

deal_type_code_15(buffer) ==
    IF ~SliceOk(buffer, 2, 52) THEN Panic
    ELSE IF ~Utf8Valid(Slice(buffer, 2, 52)) THEN Err
    ELSE IF ~SliceOk(buffer, 56, 57) THEN Panic
    ELSE Ok([type_code |-> 15,
             binlog_version |-> Slice(buffer, 0, 2),
             server_version |-> TrimNul(Slice(buffer, 2, 52)),
             create_timestamp |-> Slice(buffer, 52, 56),
             header_length |-> buffer[57]])

\* buffer_length - 4 is a usize: below zero it panics (debug) or wraps to an
\* end no buffer has, and the slice panics (release).
deal_type_code_160(buffer) ==
    IF Len(buffer) < 4 THEN Panic
    ELSE IF ~Utf8Valid(Slice(buffer, 0, Len(buffer) - 4)) THEN Err
    ELSE Ok([type_code |-> 160, sql |-> Slice(buffer, 0, Len(buffer) - 4)])

deal_type_code_163(buffer) ==
    IF ~SliceOk(buffer, 0, 4) THEN Panic
    ELSE LET number_of_gtids == Slice(buffer, 0, 4) IN
         IF ~IsSmall(number_of_gtids) THEN Panic
         ELSE IF ~SliceOk(buffer, 4, 4 + 16 * Val(number_of_gtids)) THEN Panic
         ELSE Ok([type_code |-> 163,
                  number_of_gtids |-> number_of_gtids,
                  gtids |-> [i \in 1..Val(number_of_gtids) |->
                      [replication_domain_id |->
                           Slice(buffer, 16 * i - 12, 16 * i - 8),
                       server_id |-> Slice(buffer, 16 * i - 8, 16 * i - 4),
                       gtid_sequence |-> Slice(buffer, 16 * i - 4, 16 * i + 4)]]])

deal_type_code_16(buffer) ==
    IF ~SliceOk(buffer, 0, 1) THEN Panic
    ELSE Ok([type_code |-> 16, xid_transaction_number |-> buffer[1]])

deal_type_code_161(buffer) ==
    IF ~SliceOk(buffer, 0, 4) THEN Panic
    ELSE LET log_filename_length == Slice(buffer, 0, 4) IN
         IF ~SliceLenOk(buffer, 4, log_filename_length) THEN Panic
         ELSE IF ~Utf8Valid(Slice(buffer, 4, 4 + Val(log_filename_length))) THEN Err
         ELSE Ok([type_code |-> 161,
                  log_filename_length |-> log_filename_length,
                  log_filename |->
                      TrimNul(Slice(buffer, 4, 4 + Val(log_filename_length)))])

\* A Gtid decoder that looks at the XA bits before the group-commit bit.
deal_type_code_162_xa_first(buffer) ==
    IF ~SliceOk(buffer, 12, 13) THEN Panic
    ELSE LET flags == buffer[13]
             basic == [type_code |-> 162,
                       gtid_sequence |-> Slice(buffer, 0, 8),
                       replication_domain_id |-> Slice(buffer, 8, 12),
                       flags |-> flags,
                       commit_id |-> NoValue,
                       format_id |-> NoValue,
                       gtid_length |-> NoValue,
                       bqual_length |-> NoValue,
                       xid |-> NoValue]
         IN
    IF BitSet(flags, 64) \/ BitSet(flags, 128) THEN
        IF ~SliceOk(buffer, 18, 19) THEN Panic
        ELSE IF ~SliceOk(buffer, 19, 19 + buffer[18] + buffer[19]) THEN Panic
        ELSE Ok([basic EXCEPT
                   !.format_id = <<Slice(buffer, 13, 17)>>,
                   !.gtid_length = <<buffer[18]>>,
                   !.bqual_length = <<buffer[19]>>,
                   !.xid = <<Slice(buffer, 19, 19 + buffer[18] + buffer[19])>>])
    ELSE IF BitSet(flags, 2) THEN
        IF ~SliceOk(buffer, 13, 21) THEN Panic
        ELSE Ok([basic EXCEPT !.commit_id = <<Slice(buffer, 13, 21)>>])
    ELSE Ok(basic)

deal_type_code_162(buffer) ==
    IF ~SliceOk(buffer, 12, 13) THEN Panic
    ELSE LET flags == buffer[13]
             basic == [type_code |-> 162,
                       gtid_sequence |-> Slice(buffer, 0, 8),
                       replication_domain_id |-> Slice(buffer, 8, 12),
                       flags |-> flags,
                       commit_id |-> NoValue,
                       format_id |-> NoValue,
                       gtid_length |-> NoValue,
                       bqual_length |-> NoValue,
                       xid |-> NoValue]
         IN
    IF BitSet(flags, 2) THEN
        IF ~SliceOk(buffer, 13, 21) THEN Panic
        ELSE Ok([basic EXCEPT !.commit_id = <<Slice(buffer, 13, 21)>>])
    ELSE IF BitSet(flags, 64) \/ BitSet(flags, 128) THEN
        IF ~SliceOk(buffer, 18, 19) THEN Panic
        ELSE IF ~SliceOk(buffer, 19, 19 + buffer[18] + buffer[19]) THEN Panic
        ELSE Ok([basic EXCEPT
                   !.format_id = <<Slice(buffer, 13, 17)>>,
                   !.gtid_length = <<buffer[18]>>,
                   !.bqual_length = <<buffer[19]>>,
                   !.xid = <<Slice(buffer, 19, 19 + buffer[18] + buffer[19])>>])
    ELSE Ok(basic)

deal_type_code_5(buffer) ==
    IF ~SliceOk(buffer, 1, 9) THEN Panic
    ELSE Ok([type_code |-> 5, data_type |-> buffer[1], value |-> Slice(buffer, 1, 9)])

deal_type_code_4(buffer) ==
    IF ~SliceOk(buffer, 0, 8) THEN Panic
    ELSE IF ~SliceOk(buffer, 8, Len(buffer) - 4) THEN Panic
    ELSE IF ~Utf8Valid(Slice(buffer, 8, Len(buffer) - 4)) THEN Err
    ELSE Ok([type_code |-> 4,
             position_of_the_first_event_in_next_log_file |-> Slice(buffer, 0, 8),
             file_name_of_next_binary_log |->
                 TrimNul(Slice(buffer, 8, Len(buffer) - 4))])

deal_type_code_13(buffer) ==
    IF ~SliceOk(buffer, 8, 16) THEN Panic
    ELSE Ok([type_code |-> 13,
             first_seed |-> Slice(buffer, 0, 8),
             second_seed |-> Slice(buffer, 8, 16)])

deal_type_code_164(buffer) ==
    IF ~SliceOk(buffer, 5, 17) THEN Panic
    ELSE Ok([type_code |-> 164,
             encryption_scheme |-> buffer[1],
             encryption_key_version |-> Slice(buffer, 1, 5),
             nonce |-> Slice(buffer, 5, 17)])

deal_type_code_38(buffer) ==
    IF ~SliceOk(buffer, 9, 10) THEN Panic
    ELSE LET length_of_gtrid == Slice(buffer, 5, 9)
             length_of_bqual == buffer[10]
         IN  IF ~IsSmall(length_of_gtrid) THEN Panic
             ELSE IF ~SliceOk(buffer, 10, 10 + Val(length_of_gtrid) + length_of_bqual)
             THEN Panic
             ELSE Ok([type_code |-> 38,
                      one_phase_commit |-> buffer[1],
                      format_id |-> Slice(buffer, 1, 5),
                      length_of_gtrid |-> length_of_gtrid,
                      length_of_bqual |-> length_of_bqual,
                      xid |-> Slice(buffer, 10,
                                    10 + Val(length_of_gtrid) + length_of_bqual)])

\* The non-null part of a user-var event, from offset o on.
UserVarValue(buffer, basic, o) ==
    IF ~SliceOk(buffer, o, o + 1) THEN Panic
    ELSE IF buffer[o + 1] > 4 THEN Panic
    ELSE IF ~SliceOk(buffer, o + 5, o + 9) THEN Panic
    ELSE LET length_of_value == Slice(buffer, o + 5, o + 9) IN
    IF ~SliceLenOk(buffer, o + 9, length_of_value) THEN Panic
    ELSE IF ~Utf8Valid(Slice(buffer, o + 9, o + 9 + Val(length_of_value))) THEN Err
    ELSE IF ~SliceOk(buffer, o + 9 + Val(length_of_value),
                     o + 10 + Val(length_of_value)) THEN Panic
    ELSE Ok([basic EXCEPT
               !.variable_type = <<buffer[o + 1]>>,
               !.collation_number = <<Slice(buffer, o + 1, o + 5)>>,
               !.length_of_value = <<length_of_value>>,
               !.value = <<Slice(buffer, o + 9, o + 9 + Val(length_of_value))>>,
               !.flags = <<buffer[o + 10 + Val(length_of_value)]>>])

deal_type_code_14(buffer) ==
    IF ~SliceOk(buffer, 0, 4) THEN Panic
    ELSE LET length_of_user_variable_name == Slice(buffer, 0, 4) IN
    IF ~SliceLenOk(buffer, 4, length_of_user_variable_name) THEN Panic
    ELSE LET o == 4 + Val(length_of_user_variable_name) IN
    IF ~Utf8Valid(Slice(buffer, 4, o)) THEN Err
    ELSE IF ~SliceOk(buffer, o, o + 1) THEN Panic
    ELSE LET basic == [type_code |-> 14,
                       length_of_user_variable_name |-> length_of_user_variable_name,
                       name_of_user_variable |-> Slice(buffer, 4, o),
                       null_indicator |-> buffer[o + 1],
                       variable_type |-> NoValue,
                       collation_number |-> NoValue,
                       length_of_value |-> NoValue,
                       value |-> NoValue,
                       flags |-> NoValue]
         IN  IF buffer[o + 1] > 0 THEN UserVarValue(buffer, basic, o + 1)
             ELSE Ok(basic)

-----------------------------------------------------------------------------
(* util.rs: parse_status_variables and its sub-parsers.  A sub-parser gets   *)
(* the block from the payload on and returns the bytes it rendered with      *)
(* their count.                                                              *)

\* A payload of n bytes.
StatusFixed(code, buffer, n) ==
    IF ~SliceOk(buffer, 0, n) THEN Panic
    ELSE [kind |-> "ok", value |-> [code |-> code, raw |-> Slice(buffer, 0, n)],
          skip |-> n]

\* A payload of one length byte and that many bytes of text
\* (q_timezone_code, q_catalog_nz_code).
StatusString(code, buffer) ==
    IF ~SliceOk(buffer, 0, 1) THEN Panic
    ELSE IF ~SliceOk(buffer, 1, 1 + buffer[1]) THEN Panic
    ELSE IF ~Utf8Valid(Slice(buffer, 1, 1 + buffer[1])) THEN Err
    ELSE [kind |-> "ok",
          value |-> [code |-> code, raw |-> Slice(buffer, 1, 1 + buffer[1])],
          skip |-> buffer[1] + 1]

parse_status_variables_q_invoker(buffer) ==
    IF ~SliceOk(buffer, 0, 1) THEN Panic
    ELSE LET u == buffer[1] IN
    IF ~SliceOk(buffer, 1, 1 + u) THEN Panic
    ELSE IF ~Utf8Valid(Slice(buffer, 1, 1 + u)) THEN Err
    ELSE IF ~SliceOk(buffer, 1 + u, 2 + u) THEN Panic
    ELSE LET h == buffer[2 + u] IN
    IF ~SliceOk(buffer, 2 + u, 2 + u + h) THEN Panic
    ELSE IF ~Utf8Valid(Slice(buffer, 2 + u, 2 + u + h)) THEN Err
    ELSE [kind |-> "ok",
          value |-> [code |-> 11, raw |-> Slice(buffer, 0, 2 + u + h)],
          skip |-> u + 1 + h + 1]

StatusVariable(code_id, buffer) ==
    CASE code_id \in {0, 3} -> StatusFixed(code_id, buffer, 4)
      [] code_id \in {1, 129} -> StatusFixed(code_id, buffer, 8)
      [] code_id = 4 -> StatusFixed(code_id, buffer, 6)
      [] code_id \in {5, 6} -> StatusString(code_id, buffer)
      [] code_id \in {7, 8} -> StatusFixed(code_id, buffer, 2)
      [] code_id = 9 -> StatusFixed(code_id, buffer, 1)
      [] code_id = 11 -> parse_status_variables_q_invoker(buffer)
      [] code_id = 128 -> StatusFixed(code_id, buffer, 3)
      [] OTHER -> Panic

\* A loop that breaks after its first status variable.
StatusWalk_first_only(buffer, off, results) ==
    IF ~SliceOk(buffer, off, off + 1) THEN Panic
    ELSE LET r == StatusVariable(buffer[off + 1], Tail_(buffer, off + 1)) IN
         IF r.kind # "ok" THEN r
         ELSE [kind |-> "ok", results |-> Append(results, r.value)]

\* The loop of parse_status_variables from the offset on.
RECURSIVE StatusWalk(_, _, _)
StatusWalk(buffer, off, results) ==
    IF ~SliceOk(buffer, off, off + 1) THEN Panic
    ELSE LET r == StatusVariable(buffer[off + 1], Tail_(buffer, off + 1)) IN
         IF r.kind # "ok" THEN r
         ELSE IF off + 1 + r.skip >= Len(buffer) THEN
            [kind |-> "ok", results |-> Append(results, r.value)]
         ELSE StatusWalk(buffer, off + 1 + r.skip, Append(results, r.value))

parse_status_variables(buffer) == StatusWalk(buffer, 0, <<>>)

-----------------------------------------------------------------------------
(* service.rs: deal_type_code_2, the Query decoder. *)

\* The database name and the SQL text, from offset o on.
QueryTail(buffer, basic, o) ==
    LET o2 == o + basic.length_of_database_name + 1 IN
    IF ~SliceOk(buffer, o, o2) THEN Panic
    ELSE IF ~Utf8Valid(Slice(buffer, o, o2)) THEN Err
    ELSE IF ~SliceOk(buffer, o2, Len(buffer) - 5) THEN Panic
    ELSE IF ~Utf8Valid(Slice(buffer, o2, Len(buffer) - 5)) THEN Err
    ELSE Ok([basic EXCEPT
               !.database_name = TrimNul(Slice(buffer, o, o2)),
               !.sql = Slice(buffer, o2, Len(buffer) - 5)])

deal_type_code_2(buffer) ==
    IF ~SliceOk(buffer, 11, 13) THEN Panic
    ELSE LET length_of_status_variable_block == Val(Slice(buffer, 11, 13))
             basic == [type_code |-> 2,
                       id_of_thread |-> Slice(buffer, 0, 4),
                       execute_time |-> Slice(buffer, 4, 8),
                       length_of_database_name |-> buffer[9],
                       error_code |-> Slice(buffer, 9, 11),
                       length_of_status_variable_block |->
                           length_of_status_variable_block,
                       status_variables |-> <<>>,
                       status_variables_string_vec_for_human |-> <<>>,
                       database_name |-> <<>>,
                       sql |-> <<>>]
         IN
    IF length_of_status_variable_block = 0 THEN QueryTail(buffer, basic, 13)
    ELSE IF ~SliceOk(buffer, 13, 13 + length_of_status_variable_block) THEN Panic
    ELSE LET status_variables ==
                Slice(buffer, 13, 13 + length_of_status_variable_block)
             parsed == parse_status_variables(status_variables)
         IN  IF parsed.kind # "ok" THEN parsed
             ELSE QueryTail(buffer,
                            [basic EXCEPT
                               !.status_variables = status_variables,
                               !.status_variables_string_vec_for_human =
                                   parsed.results],
                            13 + length_of_status_variable_block)

-----------------------------------------------------------------------------
(* service.rs: get_event_header and get_event_body. *)

EVENT_HEADER_LENGTH == 19

NoHeader ==
    [timestamp |-> Zeros(4), type_code |-> 0, server_id |-> Zeros(4),
     event_length |-> Zeros(4), next_event_position |-> Zeros(4), flags |-> Zeros(2)]

NoLocals == [table_info |-> NoValue]

\* seek to the offset and read_exact of 19 bytes: a short file is an Err.
get_event_header(f, off) ==
    IF ~IsSmall(off) THEN Err
    ELSE IF Val(off) + EVENT_HEADER_LENGTH > Len(f) THEN Err
    ELSE LET buffer == Slice(f, Val(off), Val(off) + EVENT_HEADER_LENGTH) IN
         [kind |-> "ok",
          header |-> [timestamp |-> Slice(buffer, 0, 4),
                      type_code |-> buffer[5],
                      server_id |-> Slice(buffer, 5, 9),
                      event_length |-> Slice(buffer, 9, 13),
                      next_event_position |-> Slice(buffer, 13, 17),
                      flags |-> Slice(buffer, 17, 19)]]

\* (event_length - EVENT_HEADER_LENGTH as u32) as usize: the u32 difference
\* panics below zero in a debug build and wraps modulo 2^32 in a release build.
BodyLength(event_length) ==
    LET d == NumSub(event_length, EVENT_HEADER_LENGTH) IN
    IF d.overflow /\ OverflowPanics THEN Panic
    ELSE [kind |-> "ok", value |-> ZExt(d.digits, 8)]

\* The match of the build with the "test" feature, which has no arm for the
\* types 13, 14, 38 and 164.
Dispatch_test_feature(buffer, type_code, ts) ==
    CASE type_code = 2 -> deal_type_code_2(buffer)
      [] type_code = 5 -> deal_type_code_5(buffer)
      [] type_code = 4 -> deal_type_code_4(buffer)
      [] type_code = 15 -> deal_type_code_15(buffer)
      [] type_code = 16 -> deal_type_code_16(buffer)
      [] type_code \in 23..25 -> deal_type_code_23_to_25(buffer, type_code, ts)
      [] type_code = 160 -> deal_type_code_160(buffer)
      [] type_code = 163 -> deal_type_code_163(buffer)
      [] type_code = 19 -> deal_type_code_19(buffer, ts)
      [] type_code = 161 -> deal_type_code_161(buffer)
      [] type_code = 162 -> deal_type_code_162(buffer)
      [] OTHER -> Ok([type_code |-> type_code, skip |-> TRUE])

\* The match on the type code (the build without the "test" feature).
Dispatch(buffer, type_code, ts) ==
    CASE type_code = 2 -> deal_type_code_2(buffer)
      [] type_code = 5 -> deal_type_code_5(buffer)
      [] type_code = 4 -> deal_type_code_4(buffer)
      [] type_code = 13 -> deal_type_code_13(buffer)
      [] type_code = 14 -> deal_type_code_14(buffer)
      [] type_code = 15 -> deal_type_code_15(buffer)
      [] type_code = 16 -> deal_type_code_16(buffer)
      [] type_code = 19 -> deal_type_code_19(buffer, ts)
      [] type_code \in 23..25 -> deal_type_code_23_to_25(buffer, type_code, ts)
      [] type_code = 38 -> deal_type_code_38(buffer)
      [] type_code = 160 -> deal_type_code_160(buffer)
      [] type_code = 161 -> deal_type_code_161(buffer)
      [] type_code = 162 -> deal_type_code_162(buffer)
      [] type_code = 163 -> deal_type_code_163(buffer)
      [] type_code = 164 -> deal_type_code_164(buffer)
      [] OTHER -> Ok([type_code |-> type_code, skip |-> TRUE])

\* What get_event_body returns once the decoder has returned r: its kind, the
\* body length it computed and, for Ok, the body, the registry after the call
\* and the row decoder's locals.
Returned(r, body_length_, type_code, ts) ==
    IF r.kind # "ok" THEN [kind |-> r.kind, body_length |-> <<body_length_>>]
    ELSE [kind |-> "ok",
          body_length |-> <<body_length_>>,
          body |-> r.body,
          table_structs |-> IF type_code = 19 THEN r.table_structs ELSE ts,
          locals |-> IF type_code \in 23..25 THEN r.locals ELSE NoLocals]

\* The body is read with read_exact (a short file is an Err) and handed to the
\* decoder of its type.  body_length is none when the subtraction panicked.
ReadAndDecode(f, off, bl, type_code, ts) ==
    IF bl.kind # "ok" THEN [kind |-> "panic", body_length |-> NoValue]
    ELSE IF ~IsSmall(off) \/ ~IsSmall(bl.value) THEN
        [kind |-> "err", body_length |-> <<bl.value>>]
    ELSE IF Val(off) + Val(bl.value) > Len(f) THEN
        [kind |-> "err", body_length |-> <<bl.value>>]
    ELSE Returned(Dispatch(Slice(f, Val(off), Val(off) + Val(bl.value)), type_code, ts),
                  bl.value, type_code, ts)

get_event_body(f, off, event_length, type_code, ts) ==
    ReadAndDecode(f, off, BodyLength(event_length), type_code, ts)

-----------------------------------------------------------------------------
(* main.rs: main (the build without the "test" feature). *)

file_length == FromInt(Len(file), 8)

HeadersPrinted == Cardinality({i \in DOMAIN emitted : emitted[i].kind = "header"})

\* A loop that skips a failed event and goes on with the next header.
AfterCall_resync(kind, next_offset) ==
    IF kind = "ok" /\ NumLeq(file_length, next_offset)
    THEN [pc |-> "halt", status |-> "done"]
    ELSE [pc |-> "header", status |-> "running"]

\* `?` on a failed call and a panic both end main; after a decoded body the
\* loop ends when the new offset has reached the file length.
AfterCall(kind, next_offset) ==
    CASE kind = "err" -> [pc |-> "halt", status |-> "error"]
      [] kind = "panic" -> [pc |-> "halt", status |-> "panic"]
      [] OTHER -> IF NumLeq(file_length, next_offset)
                  THEN [pc |-> "halt", status |-> "done"]
                  ELSE [pc |-> "header", status |-> "running"]

\* check_file_magic_number(&mut file)?; panic if it is no binlog file;
\* offset += 4.
CheckMagic ==
    /\ pc = "magic"
    /\ LET r == check_file_magic_number(file) IN
        /\ pc' = IF r.kind = "ok" /\ r.value THEN "header" ELSE "halt"
        /\ status' = IF r.kind # "ok" THEN "error"
                     ELSE IF r.value THEN "running" ELSE "panic"
        /\ offset' = IF r.kind = "ok" /\ r.value THEN NumAdd(offset, 4).digits
                     ELSE offset
    /\ UNCHANGED <<file, build, header, body_length, table_structs, row_locals, emitted,
                   input, output>>

\* get_event_header(&mut file, offset)?; the header is printed;
\* offset += EVENT_HEADER_LENGTH.
ReadHeader ==
    /\ pc = "header"
    /\ HeadersPrinted < MaxHeaders
    /\ LET r == get_event_header(file, offset) IN
        IF r.kind = "ok" THEN
            /\ header' = r.header
            /\ emitted' = Append(emitted,
                                 [kind |-> "header", at |-> offset, header |-> r.header])
            /\ offset' = NumAdd(offset, EVENT_HEADER_LENGTH).digits
            /\ pc' = "body"
            /\ status' = status
        ELSE
            /\ pc' = AfterCall(r.kind, offset).pc
            /\ status' = AfterCall(r.kind, offset).status
            /\ UNCHANGED <<header, emitted, offset>>
    /\ UNCHANGED <<file, build, body_length, table_structs, row_locals, input, output>>

\* A loop body that drops the registry when get_event_body has failed.
PrintBody_registry_lost(r, next_offset) ==
    /\ body_length' = IF r.body_length = NoValue THEN body_length
                      ELSE r.body_length[1]
    /\ pc' = AfterCall(r.kind, next_offset).pc
    /\ status' = AfterCall(r.kind, next_offset).status
    /\ IF r.kind = "ok" THEN
            /\ emitted' = Append(emitted, [kind |-> "body", body |-> r.body])
            /\ table_structs' = r.table_structs
            /\ row_locals' = IF r.locals = NoLocals THEN row_locals ELSE r.locals
            /\ offset' = next_offset
       ELSE /\ table_structs' = <<>>
            /\ UNCHANGED <<emitted, row_locals, offset>>

\* The rest of the loop body once get_event_body has returned r: `?`, the body
\* is printed, offset = next_event_position, break when offset >= file_length.
PrintBody(r, next_offset) ==
    /\ body_length' = IF r.body_length = NoValue THEN body_length
                      ELSE r.body_length[1]
    /\ pc' = AfterCall(r.kind, next_offset).pc
    /\ status' = AfterCall(r.kind, next_offset).status
    /\ IF r.kind = "ok" THEN
            /\ emitted' = Append(emitted, [kind |-> "body", body |-> r.body])
            /\ table_structs' = r.table_structs
            /\ row_locals' = IF r.locals = NoLocals THEN row_locals ELSE r.locals
            /\ offset' = next_offset
       ELSE UNCHANGED <<emitted, table_structs, row_locals, offset>>

ReadBody ==
    /\ pc = "body"
    /\ PrintBody(get_event_body(file, offset, header.event_length, header.type_code,
                                table_structs),
                 ZExt(header.next_event_position, 8))
    /\ UNCHANGED <<file, build, header, input, output>>

Next == CheckMagic \/ ReadHeader \/ ReadBody

-----------------------------------------------------------------------------
(* The input files: a magic number followed by a list of events drawn from a *)
(* pool, each framed by a 19-byte header. *)

Magic == <<254, 98, 105, 110>>

\* A Table-Map body: table id, flags, database "d", table "t", the column
\* types, the metadata block and the nullability bitmap.
TableMapBody(id, types, meta, nullable) ==
    FromInt(id, 6) \o <<0, 0>> \o <<1, 100, 0>> \o <<1, 116, 0>>
        \o <<Len(types)>> \o types \o <<Len(meta)>> \o meta \o nullable

\* A row-event body: table id, flags, the column count, then the bitmaps and
\* the column data.
RowBody(id, column_count, rest) == FromInt(id, 6) \o <<1, 0>> \o column_count \o rest

\* The shapes events are drawn from.  framing is "ok", or names how the header
\* is wrong: "short" (event_length 18), "back" (next_event_position 4), "cut"
\* (the file ends inside the header).
Pool ==
    << [type_code |-> 3, body |-> <<>>, framing |-> "ok"],
       [type_code |-> 16, body |-> <<7>>, framing |-> "ok"],
       [type_code |-> 19, framing |-> "ok",
        body |-> TableMapBody(1, <<3, 15>>, <<100, 0>>, <<2>>)],
       [type_code |-> 19, framing |-> "ok",
        body |-> TableMapBody(1, <<252, 3>>, <<1>>, <<3>>)],
       [type_code |-> 19, framing |-> "ok",
        body |-> TableMapBody(1, <<255, 252>>, <<4, 1>>, <<3>>)],
       [type_code |-> 19, framing |-> "ok",
        body |-> TableMapBody(2, <<3>>, <<>>, <<1>>)],
       [type_code |-> 19, framing |-> "ok",
        body |-> FromInt(1, 6) \o <<0, 0>> \o <<1, 100, 0>> \o <<1, 116, 0>> \o <<251>>],
       [type_code |-> 23, framing |-> "ok",
        body |-> RowBody(1, <<2>>, <<3, 0, 1, 0, 0, 0, 1, 104>>)],
       [type_code |-> 24, framing |-> "ok",
        body |-> RowBody(1, <<2>>, <<3, 3, 0, 1, 0, 0, 0, 1, 104, 2, 1, 0, 0, 0>>)],
       [type_code |-> 25, framing |-> "ok",
        body |-> RowBody(2, <<1>>, <<1, 1>>)],
       [type_code |-> 23, framing |-> "ok",
        body |-> RowBody(1, <<254, 255, 255, 255, 255, 255, 255, 255, 255>>, <<>>)],
       [type_code |-> 3, body |-> <<>>, framing |-> "short"],
       [type_code |-> 3, body |-> <<>>, framing |-> "back"],
       [type_code |-> 3, body |-> <<>>, framing |-> "cut"] >>

\* The bytes of one event placed at file offset `at`.
EventBytes(shape, at) ==
    LET event_length == IF shape.framing = "short" THEN 18
                        ELSE EVENT_HEADER_LENGTH + Len(shape.body)
        next_event_position == IF shape.framing = "back" THEN 4
                               ELSE at + EVENT_HEADER_LENGTH + Len(shape.body)
        head == FromInt(0, 4) \o <<shape.type_code>> \o FromInt(1, 4)
                    \o FromInt(event_length, 4) \o FromInt(next_event_position, 4)
                    \o FromInt(0, 2)
    IN  IF shape.framing = "cut" THEN SubSeq(head, 1, 10) ELSE head \o shape.body

RECURSIVE Assemble(_, _, _)
Assemble(picks, i, bytes) ==
    IF i > Len(picks) THEN bytes
    ELSE Assemble(picks, i + 1, bytes \o EventBytes(Pool[picks[i]], Len(bytes)))

EventLists == UNION {[1..n -> DOMAIN Pool] : n \in 0..MaxEvents}

\* Files that begin with the magic number, and files that do not: too short,
\* or four other bytes followed by a well-formed event.
Files ==
    {Assemble(picks, 1, Magic) : picks \in EventLists}
        \cup {<<>>, <<254, 98, 105>>}
        \cup {Assemble(<<1>>, 1, m) : m \in {<<254, 98, 105, 111>>, <<0, 98, 105, 110>>}}

\* No function is applied on its own while main runs.
NoInput == [fn |-> "main"]

Init ==
    /\ file \in Files
    /\ build \in {"debug", "release"}
    /\ pc = "magic"
    /\ status = "running"
    /\ offset = Zeros(8)
    /\ header = NoHeader
    /\ body_length = Zeros(8)
    /\ table_structs = <<>>
    /\ row_locals = NoLocals
    /\ emitted = <<>>
    /\ input = NoInput
    /\ output = NoValue

Spec == Init /\ [][Next]_vars

-----------------------------------------------------------------------------
(* The helpers applied on their own: the input is drawn from a bounded set,   *)
(* one action calls the function and keeps what it returned.                  *)

ByteSeqs(alphabet, n) == UNION {[1..k -> alphabet] : k \in 0..n}

\* The shortest length-encoded form of a u64 numeral.
CanonicalLenenc(v) ==
    IF IsSmall(v) /\ Val(v) < 251 THEN <<v[1]>>
    ELSE IF \A i \in 3..8 : v[i] = 0 THEN <<252, v[1], v[2]>>
    ELSE IF \A i \in 4..8 : v[i] = 0 THEN <<253, v[1], v[2], v[3]>>
    ELSE <<254>> \o v

\* 0, 250, 251, 255, 256, 2^16 - 1, 2^16, 2^24 - 1, 2^24, 2^32, 2^64 - 1.
RoundTripValues ==
    {FromInt(0, 8), FromInt(250, 8), FromInt(251, 8), FromInt(255, 8),
     FromInt(256, 8), FromInt(65535, 8), FromInt(65536, 8),
     <<255, 255, 255, 0, 0, 0, 0, 0>>, <<0, 0, 0, 1, 0, 0, 0, 0>>,
     <<0, 0, 0, 0, 1, 0, 0, 0>>, <<255, 255, 255, 255, 255, 255, 255, 255>>}

TrailingBytes == {<<>>, <<0>>, <<255, 1>>}

LenencInputs ==
    {[fn |-> "parse_lenenc", build |-> "release", buffer |-> b] :
        b \in {<<>>}
            \cup {<<f>> \o t : f \in 250..255, t \in ByteSeqs({0, 1, 255}, MaxTail)}
            \cup {CanonicalLenenc(v) \o t : v \in RoundTripValues, t \in TrailingBytes}}

BitmapInputs ==
    {[fn |-> "parse_bitmap", build |-> "release", buffer |-> b, truncate |-> c] :
        b \in ByteSeqs({0, 1, 128, 165, 255}, MaxBitmapBytes),
        c \in {FromInt(n, 8) : n \in 0..(8 * MaxBitmapBytes + 1)}
                \cup {<<255, 255, 255, 255, 255, 255, 255, 255>>}}

\* What may follow the flags byte of a Gtid body: nothing, a commit id, an XA
\* part (format id, the two lengths, the xid) whole or cut short.
GtidRests ==
    {<<>>, <<9, 0, 0>>, <<9, 0, 0, 0, 0, 0, 0, 0>>,
     <<1, 0, 0, 0, 0, 0, 7, 7>>,
     <<1, 0, 0, 0, 1, 1, 103, 98, 7, 7>>,
     <<1, 0, 0, 0, 2, 0, 103, 103, 7, 7>>,
     <<1, 0, 0, 0, 0, 3, 98, 98, 98, 7>>,
     <<1, 0, 0, 0, 2, 2, 103>>}

\* Gtid bodies with every flags byte.
GtidInputs ==
    {[fn |-> "deal_type_code_162", build |-> "release",
      buffer |-> <<5, 0, 0, 0, 0, 0, 0, 0>> \o <<1, 0, 0, 0>> \o <<flags>> \o rest] :
        flags \in 0..255, rest \in GtidRests}
      \cup {[fn |-> "deal_type_code_162", build |-> "release", buffer |-> b] :
                b \in {<<>>, <<5, 0, 0, 0, 0, 0, 0, 0, 1, 0, 0, 0>>}}

\* The packed form of a positive decimal with integer digits ip and
\* fractional digits fp (nine digits at most each): each part big-endian in
\* its bytes, the top bit of the first byte set.
DecimalEncode(precision, decimals, ip, fp) ==
    FlipTopBit(
        Reverse(FromInt(ip, parse_quantity_of_bytes_for_decimal_part(precision - decimals)))
        \o Reverse(FromInt(fp, parse_quantity_of_bytes_for_decimal_part(decimals))))

\* Precision, decimals and the digits of the two parts.
DecimalValues ==
    {[precision |-> 5, decimals |-> 2, ip |-> ip, fp |-> fp] :
        ip \in {0, 1, 123, 999}, fp \in {0, 5, 45, 99}}
    \cup {[precision |-> 9, decimals |-> 0, ip |-> ip, fp |-> 0] :
        ip \in {0, 7, 1000000, 999999999}}
    \cup {[precision |-> 2, decimals |-> 2, ip |-> 0, fp |-> fp] : fp \in {1, 10, 99}}
    \cup {[precision |-> 18, decimals |-> 9, ip |-> ip, fp |-> fp] :
        ip \in {0, 42, 999999999}, fp \in {0, 500000000, 999999999}}

\* A positive value's packed form, with or without bytes after it.
DecimalInputs ==
    {[fn |-> "bin_to_decimal", build |-> "release",
      precision |-> v.precision, decimals |-> v.decimals,
      buffer |-> DecimalEncode(v.precision, v.decimals, v.ip, v.fp) \o t] :
        v \in DecimalValues, t \in TrailingBytes}

\* The registry entry of a table, as far as the column decoder reads it: the
\* names of the column types and the raw metadata entries.
TableInfo(names, metas) ==
    [column_types_string_for_human |-> names, metadata_block_data_raw |-> metas]

ColumnCall(build_, names, metas, null_bitmap, buffer) ==
    [fn |-> "parse_column_data_for_row_event", build |-> build_,
     table_info |-> TableInfo(names, metas), null_bitmap |-> null_bitmap,
     buffer |-> buffer]

\* The five bytes of a DATETIME2 value: 0x8000000000 plus the date
\* ((year * 13 + month) * 32 + day) shifted left by 17 plus the time
\* (hour << 12 | minute << 6 | second), big-endian.
Datetime2Bytes(date, time) ==
    <<128 + date \div 32768, (date \div 128) % 256,
      (date % 128) * 2 + time \div 65536, (time \div 256) % 256, time % 256>>

Datetime2Encode(v) ==
    Datetime2Bytes((v.year * 13 + v.month) * 32 + v.day,
                   v.hour * 4096 + v.minute * 64 + v.second)

DatetimeValues ==
    [year : {999, 1000, 2024, 9999}, month : {1, 6, 12}, day : {1, 15, 31},
     hour : {0, 13, 23}, minute : {0, 45, 59}, second : {0, 30, 59}]

Builds == {"debug", "release"}

\* One DATETIME2 column.
Datetime2Calls ==
    {ColumnCall(b, <<"MYSQL_TYPE_DATETIME2">>, <<(<<0>>)>>, <<FALSE>>,
                Datetime2Encode(v)) : b \in Builds, v \in DatetimeValues}

\* One TIME2 column, on three bytes below and above 0x800000.
Time2Calls ==
    {ColumnCall(b, <<"MYSQL_TYPE_TIME2">>, <<(<<0>>)>>, <<FALSE>>, <<b1, b2, b3>>) :
        b \in Builds, b1 \in {0, 127, 128, 129, 255}, b2 \in {0, 1, 180, 255},
        b3 \in {0, 30, 64, 255}}

\* A column type with its metadata entry (none for a type outside the
\* metadata-dependent list) and the bytes of one value.
EncodedColumns ==
    { [name |-> "MYSQL_TYPE_TINY", metas |-> <<>>, bytes |-> <<5>>],
      [name |-> "MYSQL_TYPE_SHORT", metas |-> <<>>, bytes |-> <<5, 1>>],
      [name |-> "MYSQL_TYPE_LONG", metas |-> <<>>, bytes |-> <<5, 1, 2, 3>>],
      [name |-> "MYSQL_TYPE_LONGLONG", metas |-> <<>>,
       bytes |-> <<5, 1, 2, 3, 4, 5, 6, 7>>],
      [name |-> "MYSQL_TYPE_FLOAT", metas |-> <<(<<4>>)>>, bytes |-> <<0, 0, 128, 63>>],
      [name |-> "MYSQL_TYPE_DOUBLE", metas |-> <<(<<8>>)>>,
       bytes |-> <<0, 0, 0, 0, 0, 0, 240, 63>>],
      [name |-> "MYSQL_TYPE_DATE", metas |-> <<>>, bytes |-> <<207, 208, 15>>],
      [name |-> "MYSQL_TYPE_TIME2", metas |-> <<(<<0>>)>>, bytes |-> <<128, 219, 94>>],
      [name |-> "MYSQL_TYPE_DATETIME2", metas |-> <<(<<0>>)>>,
       bytes |-> <<153, 179, 158, 219, 94>>],
      [name |-> "MYSQL_TYPE_TIMESTAMP2", metas |-> <<(<<0>>)>>,
       bytes |-> <<102, 109, 130, 10>>],
      [name |-> "MYSQL_TYPE_NEWDECIMAL", metas |-> <<(<<5, 2>>)>>,
       bytes |-> <<128, 123, 45>>],
      [name |-> "MYSQL_TYPE_VARCHAR", metas |-> <<(<<100, 0>>)>>,
       bytes |-> <<2, 104, 105>>],
      [name |-> "MYSQL_TYPE_VARCHAR", metas |-> <<(<<0, 1>>)>>,
       bytes |-> <<2, 0, 104, 105>>],
      [name |-> "MYSQL_TYPE_BLOB", metas |-> <<(<<1>>)>>, bytes |-> <<2, 104, 105>>],
      [name |-> "MYSQL_TYPE_BLOB", metas |-> <<(<<2>>)>>, bytes |-> <<1, 0, 255>>] }

\* A column of every decoded type followed by a TINY column with the value
\* 77, and two of them around a column that is NULL or not.
BackToBackCalls ==
    {ColumnCall(b, <<c.name, "MYSQL_TYPE_TINY">>, c.metas, <<FALSE, FALSE>>,
                c.bytes \o <<77>> \o t) :
        b \in Builds, c \in EncodedColumns, t \in {<<>>, <<9>>}}
    \cup {ColumnCall("release", <<c.name, "MYSQL_TYPE_LONG", d.name>>,
                     c.metas \o d.metas, <<FALSE, n, FALSE>>,
                     c.bytes \o (IF n THEN <<>> ELSE <<1, 2, 3, 4>>) \o d.bytes) :
        c \in EncodedColumns, d \in EncodedColumns, n \in BOOLEAN}

\* The little-endian length of a payload in k bytes, then the payload.
Prefixed(k, payload) == FromInt(Len(payload), k) \o payload

BlobPayloads == {<<>>, <<104, 105>>, <<195, 169>>, <<255, 254, 0>>, <<104, 128>>}

\* One BLOB column with a length-of-length of 0 to 5 or 255.
BlobCalls ==
    {ColumnCall(b, <<"MYSQL_TYPE_BLOB">>, <<(<<k>>)>>, <<FALSE>>,
                Prefixed(IF k \in 1..4 THEN k ELSE 1, payload) \o t) :
        b \in Builds, k \in {0, 1, 2, 3, 4, 5, 255}, payload \in BlobPayloads,
        t \in TrailingBytes}

ColumnInputs == Datetime2Calls \cup Time2Calls \cup BackToBackCalls \cup BlobCalls

\* Column-type vectors for the metadata loop of the Table-Map decoder: every
\* vector of up to MaxWalkColumns columns of LONG (no metadata), VARCHAR (two
\* bytes) and BLOB (one byte), and vectors whose widths sum to 254, 255, 256
\* and 257.
Repeat(x, n) == [i \in 1..n |-> x]

WalkColumnTypes ==
    UNION {[1..n -> {3, 15, 252}] : n \in 0..MaxWalkColumns}
        \cup {Repeat(15, 127), Repeat(15, 127) \o <<252>>, Repeat(15, 128),
              <<3>> \o Repeat(15, 127) \o <<3, 252, 15>>}

\* The sum of the metadata widths of the columns a..b, and of the first j.
RECURSIVE WidthsBetween(_, _, _)
WidthsBetween(column_types, a, b) ==
    IF a > b THEN 0
    ELSE IF a = b THEN MetadataWidth(column_types[a])
    ELSE WidthsBetween(column_types, a, (a + b) \div 2)
            + WidthsBetween(column_types, (a + b) \div 2 + 1, b)

WidthSum(column_types, j) == WidthsBetween(column_types, 1, j)

\* A metadata block of n bytes, no two neighbours alike.
MetadataBytes(n) == [i \in 1..n |-> (i * 7) % 256]

MetadataWalkInputs ==
    {[fn |-> "parse_metadata_block", build |-> b, column_types |-> t,
      buffer |-> MetadataBytes(WidthSum(t, Len(t)))] :
        b \in Builds, t \in WalkColumnTypes}

FnInputs ==
    LenencInputs \cup BitmapInputs \cup GtidInputs \cup DecimalInputs \cup ColumnInputs
        \cup MetadataWalkInputs

InitFn ==
    /\ input \in FnInputs
    /\ build = input.build
    /\ pc = "call"
    /\ status = "running"
    /\ file = <<>>
    /\ offset = Zeros(8)
    /\ header = NoHeader
    /\ body_length = Zeros(8)
    /\ table_structs = <<>>
    /\ row_locals = NoLocals
    /\ emitted = <<>>
    /\ output = NoValue

\* The call returns: only pc and output change.
Return(result) ==
    /\ pc = "call"
    /\ pc' = "return"
    /\ output' = result
    /\ UNCHANGED <<file, build, status, offset, header, body_length, table_structs,
                   row_locals, emitted, input>>

ApplyLenenc == input.fn = "parse_lenenc" /\ Return(parse_lenenc(input.buffer))

ApplyBitmap ==
    input.fn = "parse_bitmap" /\ Return(parse_bitmap(input.buffer, input.truncate))

ApplyGtid ==
    input.fn = "deal_type_code_162" /\ Return(deal_type_code_162(input.buffer))

\* The value is decoded from its packed form, and from the packed form of the
\* negative value of the same digits: every byte of the value inverted.
ApplyDecimal ==
    /\ input.fn = "bin_to_decimal"
    /\ Return([positive |-> bin_to_decimal(input.buffer, input.precision,
                                           input.decimals),
               negative |-> bin_to_decimal(
                                Invert(SubSeq(input.buffer, 1,
                                              parse_quantity_of_bytes_for_decimal_part(
                                                  input.precision - input.decimals)
                                              + parse_quantity_of_bytes_for_decimal_part(
                                                  input.decimals)))
                                \o SubSeq(input.buffer,
                                          parse_quantity_of_bytes_for_decimal_part(
                                              input.precision - input.decimals)
                                          + parse_quantity_of_bytes_for_decimal_part(
                                              input.decimals) + 1,
                                          Len(input.buffer)),
                                input.precision, input.decimals)])

ApplyColumns ==
    /\ input.fn = "parse_column_data_for_row_event"
    /\ Return(parse_column_data_for_row_event(input.buffer, input.table_info,
                                              input.null_bitmap))

\* The metadata loop of deal_type_code_19 over the column types.
ApplyMetadataWalk ==
    /\ input.fn = "parse_metadata_block"
    /\ Return(MetadataWalk(input.column_types, input.buffer, 1, 0, <<>>))

NextFn ==
    \/ ApplyLenenc
    \/ ApplyBitmap
    \/ ApplyGtid
    \/ ApplyDecimal
    \/ ApplyColumns
    \/ ApplyMetadataWalk

SpecFn == InitFn /\ [][NextFn]_vars

-----------------------------------------------------------------------------
(* Files of one or two events drawn from a catalogue that has a body of      *)
(* every decoded type, bodies of types no decoder exists for, Query bodies    *)
(* with every kind of status block, and every body cut short.                 *)

\* A Query body: thread id, execution time, database "d", error code, the
\* status-variable block sv, the SQL text "s" and five trailing bytes.
QueryBody(sv) ==
    <<1, 0, 0, 0>> \o Zeros(4) \o <<1>> \o <<0, 0>> \o FromInt(Len(sv), 2) \o sv
        \o <<100, 0>> \o <<115>> \o Zeros(5)

\* A status block of a time zone "UTC", an invoker "u"@"h" and a
\* table-map-for-update byte.
ZoneInvokerBlock == <<5, 3, 85, 84, 67>> \o <<11, 1, 117, 1, 104>> \o <<9, 1>>

\* A Gtid body with the given flags byte and what follows it.
GtidBody(flags, rest) == FromInt(5, 8) \o FromInt(1, 4) \o <<flags>> \o rest

Shape(type_code, body) == [type_code |-> type_code, body |-> body, framing |-> "ok"]

\* One well-formed body (or more) of each of the seventeen decoded types.
DecodedShapes ==
    { Shape(2, QueryBody(<<>>)),
      Shape(2, QueryBody(<<0, 0, 0, 0, 0>>)),
      Shape(2, QueryBody(<<0, 0, 0, 0, 0, 9, 1>>)),
      Shape(2, QueryBody(ZoneInvokerBlock)),
      Shape(4, FromInt(4, 8) \o <<97>> \o Zeros(4)),
      Shape(5, <<1>> \o FromInt(7, 8)),
      Shape(13, FromInt(1, 8) \o FromInt(2, 8)),
      Shape(14, FromInt(1, 4) \o <<97, 0>>),
      Shape(15, <<4, 0>> \o <<49>> \o Zeros(49) \o Zeros(4) \o <<19>>),
      Shape(16, <<7>>),
      Shape(19, TableMapBody(1, <<3, 15>>, <<100, 0>>, <<2>>)),
      Shape(23, RowBody(1, <<2>>, <<3, 0, 1, 0, 0, 0, 1, 104>>)),
      Shape(24, RowBody(1, <<2>>, <<3, 3, 0, 1, 0, 0, 0, 1, 104, 2, 1, 0, 0, 0>>)),
      Shape(25, RowBody(1, <<2>>, <<3, 2, 1, 0, 0, 0>>)),
      Shape(38, <<1>> \o FromInt(1, 4) \o FromInt(1, 4) \o <<1>> \o <<103, 98>>),
      Shape(160, <<115>> \o Zeros(4)),
      Shape(161, FromInt(1, 4) \o <<97>>),
      Shape(162, GtidBody(0, <<>>)),
      Shape(162, GtidBody(2, FromInt(9, 8))),
      Shape(162, GtidBody(64, FromInt(1, 4) \o <<1, 1>> \o <<103, 98>>)),
      Shape(163, FromInt(1, 4) \o FromInt(1, 4) \o FromInt(1, 4) \o FromInt(5, 8)),
      Shape(164, <<1>> \o FromInt(1, 4) \o Zeros(12)) }

\* Type codes the match has no arm for, with and without a body.
SkippedShapes ==
    {Shape(t, b) : t \in {0, 3, 17, 26, 39, 159, 165, 255},
                   b \in {<<>>, <<255>>, <<0, 251, 1>>}}

\* Query bodies whose status block holds a code no sub-parser exists for:
\* first, or after a well-formed variable.
UnknownStatusShapes ==
    {Shape(2, QueryBody(sv)) :
        sv \in {<<2, 0>>, <<10, 0>>, <<12>>, <<130, 0, 0>>, <<255>>,
                <<0, 0, 0, 0, 0, 10, 0>>}}

\* Table-Map bodies of table 1 that fail on a value, not on their length: a
\* column count of 251, a database name that is no UTF-8, a column type the
\* catalogue of field types does not know.
FailingTableMaps ==
    {Shape(19, FromInt(1, 6) \o <<0, 0>> \o <<1, 100, 0>> \o <<1, 116, 0>> \o <<251>>),
     Shape(19, FromInt(1, 6) \o <<0, 0>> \o <<1, 255, 0>> \o <<1, 116, 0>>
                   \o <<1, 3, 0, 1>>),
     Shape(19, TableMapBody(1, <<3, 200>>, <<>>, <<2>>))}

\* Every body of the catalogue with its end cut off.
CutLengths(body) ==
    0..(IF Len(body) - 1 < MaxCut THEN Len(body) - 1 ELSE MaxCut)

CutShapes ==
    UNION {{Shape(s.type_code, SubSeq(s.body, 1, n)) : n \in CutLengths(s.body)} :
              s \in DecodedShapes}

Catalogue ==
    DecodedShapes \cup SkippedShapes \cup UnknownStatusShapes \cup FailingTableMaps
        \cup CutShapes

RECURSIVE Frame(_, _, _)
Frame(shapes, i, bytes) ==
    IF i > Len(shapes) THEN bytes
    ELSE Frame(shapes, i + 1, bytes \o EventBytes(shapes[i], Len(bytes)))

\* One event of the catalogue, or a well-formed event followed by one.
EventFiles ==
    {Frame(<<a>>, 1, Magic) : a \in Catalogue}
        \cup {Frame(<<a, b>>, 1, Magic) :
                a \in DecodedShapes \cup SkippedShapes, b \in Catalogue}

InitEvents ==
    /\ file \in EventFiles
    /\ build \in {"debug", "release"}
    /\ pc = "magic"
    /\ status = "running"
    /\ offset = Zeros(8)
    /\ header = NoHeader
    /\ body_length = Zeros(8)
    /\ table_structs = <<>>
    /\ row_locals = NoLocals
    /\ emitted = <<>>
    /\ input = NoInput
    /\ output = NoValue

SpecEvents == InitEvents /\ [][Next]_vars

-----------------------------------------------------------------------------
(* Properties. *)

Failed == status \in {"error", "panic"}

StartsWithMagic == Len(file) >= 4 /\ SubSeq(file, 1, 4) = <<254, 98, 105, 110>>

\* main ended in the magic check: nothing was printed and the cursor is still 0.
MagicCheckFailed == pc = "halt" /\ emitted = <<>> /\ offset = Zeros(8)

LastIsRow ==
    /\ emitted # <<>>
    /\ emitted[Len(emitted)].kind = "body"
    /\ emitted[Len(emitted)].body.type_code \in 23..25

LastBody == emitted[Len(emitted)].body

TableMapIndexes(t) ==
    {i \in DOMAIN emitted : /\ emitted[i].kind = "body"
                            /\ emitted[i].body.type_code = 19
                            /\ emitted[i].body.table_id = t}

DecodedTableIds ==
    {emitted[i].body.table_id :
        i \in {j \in DOMAIN emitted : /\ emitted[j].kind = "body"
                                      /\ emitted[j].body.type_code = 19}}

LastTableMap(t) ==
    emitted[CHOOSE m \in TableMapIndexes(t) : \A n \in TableMapIndexes(t) : n <= m].body

PopCount(v) == Cardinality({i \in DOMAIN v : v[i]})

\* ceil(n / 8) of a u64 numeral, without the sum n + 7.
CeilDiv8(n) == NumAdd(NumDiv8(n), IF n[1] % 8 = 0 THEN 0 ELSE 1).digits

\* main is about to decode a row event whose table id has no registry entry.
RowWithoutEntry ==
    /\ pc = "body"
    /\ header.type_code \in 23..25
    /\ IsSmall(offset)
    /\ Val(offset) + 6 <= Len(file)
    /\ ZExt(Slice(file, Val(offset), Val(offset) + 6), 8) \notin DOMAIN table_structs

\* The call main is about to make returns Err or panics.
CallFails ==
    \/ pc = "header" /\ get_event_header(file, offset).kind # "ok"
    \/ /\ pc = "body"
       /\ get_event_body(file, offset, header.event_length, header.type_code,
                         table_structs).kind # "ok"

\* The raw entry the Table-Map decoder stored for column i of the entry ti: the
\* entries are stored in column order, one for each column whose type has a
\* non-zero width.
StoredEntry(ti, i) ==
    ti.metadata_block_data_raw[
        Cardinality({j \in 1..i : MetadataWidth(ti.column_types[j]) > 0})]

\* Every column of the image whose type needs metadata was handed the entry
\* stored for it.
LockStep(ti, used) ==
    \A i \in DOMAIN used :
        MetadataWidth(ti.column_types[i]) > 0 => used[i] = <<StoredEntry(ti, i)>>

\* C1: decoding a row event whose table id has no entry in the registry ends
\* with an Err returned to main (status "error"), and no body is emitted.
C1_MissingTableIsError ==
    [][RowWithoutEntry => status' = "error" /\ emitted' = emitted]_vars

\* C2: the cursor never moves backwards: no step of main lowers offset.
C2_CursorNeverMovesBack == [][NumLeq(offset, offset')]_vars

\* C3: on the file that holds only the magic number nothing is emitted and
\* main does not end with an error or a panic.
C3_MagicOnlyFileEndsCleanly == file = Magic => emitted = <<>> /\ ~Failed

\* C4: a header with event_length < 19 is rejected with an Err, and no body
\* length is computed from it.
C4_ShortEventLengthRejected ==
    [][(pc = "body" /\ NumLess(header.event_length, FromInt(19, 4)))
        => status' = "error" /\ body_length' = body_length /\ emitted' = emitted]_vars

\* C5, as stated: decoding fails only for a file whose first four bytes are not
\* FE 62 69 6E (a file that starts with the magic is not failed).
C5_FailsOnlyOnWrongMagic == Failed => ~StartsWithMagic

\* C5, amended: the magic check fails if and only if the first four bytes of
\* the file are not FE 62 69 6E; a file that fails it ends with an error or a
\* panic and never has an event decoded, and a file that starts with the magic
\* passes the check (it may still fail later, on one of its events).
C5_MagicCheckFailsIffWrongMagic ==
    pc # "magic" =>
        /\ MagicCheckFailed <=> ~StartsWithMagic
        /\ MagicCheckFailed => Failed
        /\ ~StartsWithMagic => emitted = <<>>

\* A file of more than four bytes with a wrong magic has been rejected.
C5_WrongMagicRejected ==
    Len(file) > 4 /\ ~StartsWithMagic /\ pc = "halt" /\ status = "panic"

\* C6: when reading a header or decoding a body fails, main ends at once with
\* nothing emitted for that event, and after a failure nothing changes any
\* more: no later header or body is read, decoded or emitted.
C6_FirstErrorHalts ==
    [][/\ CallFails => /\ pc' = "halt"
                       /\ status' \in {"error", "panic"}
                       /\ emitted' = emitted
                       /\ offset' = offset
       /\ Failed => UNCHANGED vars]_vars

\* An event failed after something was emitted, and the file still holds at
\* least two more headers' worth of bytes behind the cursor.
C6_FailedWithEventsLeft ==
    /\ Failed
    /\ emitted # <<>>
    /\ IsSmall(offset)
    /\ Val(offset) + 2 * EVENT_HEADER_LENGTH <= Len(file)

\* C7: the registry has an entry for exactly the table ids a Table-Map body
\* was emitted for, each entry is the last Table-Map body emitted for its id,
\* and a row event is decoded against that entry.
C7_RegistryHoldsLastTableMap ==
    /\ DOMAIN table_structs = DecodedTableIds
    /\ \A t \in DecodedTableIds : table_structs[t] = LastTableMap(t)
    /\ LastIsRow => /\ LastBody.table_id \in DecodedTableIds
                    /\ row_locals.table_info = LastTableMap(LastBody.table_id)

\* A row event was decoded for a table id whose Table-Map had been replaced by
\* a different one.
C7_RowAfterReplacedTableMap ==
    /\ LastIsRow
    /\ \E i, j \in TableMapIndexes(LastBody.table_id) :
            emitted[i].body # emitted[j].body

\* C8: a step that does not decode a Table-Map leaves the registry as it is,
\* and decoding a Table-Map for an id leaves the entry of every other id as
\* it is.
C8_OnlyTableMapWritesRegistry ==
    [][/\ (pc # "body" \/ header.type_code # 19) => table_structs' = table_structs
       /\ \A t \in DOMAIN table_structs :
            \/ t \in DOMAIN table_structs' /\ table_structs'[t] = table_structs[t]
            \/ /\ pc = "body" /\ header.type_code = 19
               /\ Len(emitted') > Len(emitted)
               /\ emitted'[Len(emitted')].body.table_id = t]_vars

\* A row event was decoded while the registry held two tables.
C8_RowDecodedBesideTwoTables == LastIsRow /\ Cardinality(DOMAIN table_structs) = 2

\* C9: in an emitted row body the number of column values plus the number of
\* true bits of the null bitmap is the column count N, in the before-image and,
\* for an UPDATE, in the after-image.
C9_ValuesAreColumnsMinusNulls ==
    LastIsRow =>
        /\ FromInt(Len(LastBody.column_data) + PopCount(LastBody.null_bitmap), 8)
                = LastBody.number_of_columns
        /\ LastBody.type_code = 24 =>
                FromInt(Len(LastBody.column_data_for_update[1])
                            + PopCount(LastBody.null_bitmap_for_update[1]), 8)
                    = LastBody.number_of_columns

\* C10: in an emitted row body with column count N every bitmap was read from
\* ceil(N/8) bytes and has N entries.
C10_BitmapsHaveNEntries ==
    LastIsRow =>
        /\ row_locals.columns_used_n_byte = CeilDiv8(LastBody.number_of_columns)
        /\ row_locals.null_bitmap_n_byte = CeilDiv8(LastBody.number_of_columns)
        /\ FromInt(Len(LastBody.columns_used), 8) = LastBody.number_of_columns
        /\ FromInt(Len(LastBody.null_bitmap), 8) = LastBody.number_of_columns
        /\ LastBody.type_code = 24 =>
            /\ row_locals.columns_used_for_update_n_byte
                    = <<CeilDiv8(LastBody.number_of_columns)>>
            /\ row_locals.null_bitmap_for_update_n_byte
                    = <<CeilDiv8(LastBody.number_of_columns)>>
            /\ FromInt(Len(LastBody.columns_used_for_update[1]), 8)
                    = LastBody.number_of_columns
            /\ FromInt(Len(LastBody.null_bitmap_for_update[1]), 8)
                    = LastBody.number_of_columns

\* C11: in a decoded row event every column whose type needs metadata was
\* decoded with the raw entry the Table-Map decoder stored for that column, in
\* the before-image and, for an UPDATE, in the after-image.
C11_MetadataLockStep ==
    LastIsRow =>
        /\ LockStep(row_locals.table_info, row_locals.metadata_used)
        /\ LastBody.type_code = 24 =>
                LockStep(row_locals.table_info, row_locals.metadata_used_for_update[1])

Returned_(fn) == pc = "return" /\ input.fn = fn

\* C12: parse_lenenc on a buffer with first byte b gives (b, 1) when b < 251,
\* the next 2, 3 or 8 bytes little-endian and 3, 4 or 9 consumed bytes when b
\* is 252, 253 or 254 and the buffer holds those bytes, and an Err exactly
\* when b is 251 or 255.
C12_LenencForms ==
    (Returned_("parse_lenenc") /\ input.buffer # <<>>) =>
        LET b == input.buffer IN
        /\ output.kind = "err" <=> b[1] \in {251, 255}
        /\ b[1] < 251 =>
                output = [kind |-> "ok", value |-> <<b[1], 0, 0, 0, 0, 0, 0, 0>>,
                          skip |-> 1]
        /\ (b[1] = 252 /\ Len(b) >= 3) =>
                output = [kind |-> "ok", value |-> <<b[2], b[3], 0, 0, 0, 0, 0, 0>>,
                          skip |-> 3]
        /\ (b[1] = 253 /\ Len(b) >= 4) =>
                output = [kind |-> "ok", value |-> <<b[2], b[3], b[4], 0, 0, 0, 0, 0>>,
                          skip |-> 4]
        /\ (b[1] = 254 /\ Len(b) >= 9) =>
                output = [kind |-> "ok", value |-> SubSeq(b, 2, 9), skip |-> 9]

\* parse_lenenc returned 2^32 and 9 for FE 00 00 00 00 01 00 00 00.
C12_NineByteForm ==
    /\ Returned_("parse_lenenc")
    /\ input.buffer = <<254, 0, 0, 0, 0, 1, 0, 0, 0>>
    /\ output = [kind |-> "ok", value |-> <<0, 0, 0, 0, 1, 0, 0, 0>>, skip |-> 9]

\* C13: parse_lenenc applied to the shortest encoding of v followed by any
\* trailing bytes returns v and the length of that encoding.
C13_LenencRoundTrip ==
    Returned_("parse_lenenc") =>
        \A v \in RoundTripValues, t \in TrailingBytes :
            input.buffer = CanonicalLenenc(v) \o t =>
                output = [kind |-> "ok", value |-> v, skip |-> Len(CanonicalLenenc(v))]

\* The encoding of 2^64 - 1 followed by two trailing bytes has been parsed.
C13_LargestValueParsed ==
    /\ Returned_("parse_lenenc")
    /\ input.buffer = <<254, 255, 255, 255, 255, 255, 255, 255, 255, 255, 1>>
    /\ output.kind = "ok"

\* C14: parse_bitmap on N bytes with truncation count C returns min(8N, C)
\* booleans, the k-th (from 0) being bit k mod 8 of byte k div 8, bit 0 the
\* least significant.
C14_BitmapBits ==
    Returned_("parse_bitmap") =>
        LET b == input.buffer
            c == input.truncate
            n == IF IsSmall(c) /\ Val(c) < 8 * Len(b) THEN Val(c) ELSE 8 * Len(b)
        IN  /\ Len(output) = n
            /\ \A k \in 0..(n - 1) :
                    output[k + 1] = ((b[(k \div 8) + 1] \div Pow2(k % 8)) % 2 = 1)

\* A two-byte bitmap was cut to nine flags.
C14_TruncatedBitmap ==
    /\ Returned_("parse_bitmap")
    /\ input.buffer = <<165, 1>>
    /\ input.truncate = FromInt(9, 8)
    /\ output = <<TRUE, FALSE, TRUE, FALSE, FALSE, TRUE, FALSE, TRUE, TRUE>>

\* The body of the event whose header was read last can be read whole.
BodyReadable ==
    LET bl == BodyLength(header.event_length) IN
        /\ bl.kind = "ok"
        /\ IsSmall(offset)
        /\ IsSmall(bl.value)
        /\ Val(offset) + Val(bl.value) <= Len(file)

\* That body (where BodyReadable).
CurrentBody ==
    Slice(file, Val(offset), Val(offset) + Val(BodyLength(header.event_length).value))

KnownStatusCodes == {0, 1, 3, 4, 5, 6, 7, 8, 9, 11, 128, 129}

\* The walk over a status block, from the offset on, meets a code outside the
\* known ones.
RECURSIVE MeetsUnknownCode(_, _)
MeetsUnknownCode(block, off) ==
    IF off >= Len(block) THEN FALSE
    ELSE IF block[off + 1] \notin KnownStatusCodes THEN TRUE
    ELSE LET r == StatusVariable(block[off + 1], Tail_(block, off + 1)) IN
         r.kind = "ok" /\ MeetsUnknownCode(block, off + 1 + r.skip)

\* A Query body whose status block is whole and holds an unknown code.
QueryWithUnknownCode(buffer) ==
    /\ SliceOk(buffer, 11, 13)
    /\ SliceOk(buffer, 13, 13 + Val(Slice(buffer, 11, 13)))
    /\ MeetsUnknownCode(Slice(buffer, 13, 13 + Val(Slice(buffer, 11, 13))), 0)

\* C15: a Query event whose status-variable block holds a code outside
\* {0,1,3,4,5,6,7,8,9,11,128,129} makes the decoder return its error result,
\* and the stream halts on that error.
C15_UnknownStatusCodeIsError ==
    [][(/\ pc = "body"
        /\ header.type_code = 2
        /\ BodyReadable
        /\ QueryWithUnknownCode(CurrentBody))
       => (pc' = "halt" /\ status' = "error")]_vars

\* The bitmaps of a row body (two, three in an UPDATE) of ceil(N/8) bytes each
\* extend past its end.
RowBitmapsCut(type_code, buffer) ==
    LET nc == parse_lenenc(Tail_(buffer, 8)) IN
        /\ nc.kind = "ok"
        /\ IsSmall(nc.value)
        /\ Len(buffer) < 8 + nc.skip
                           + (IF type_code = 24 THEN 3 ELSE 2) * CeilDiv8(Val(nc.value))

\* A row or Table-Map body that ends inside the table id and flags, or a row
\* body that ends inside its bitmaps.
TruncatedLayout(type_code, buffer) ==
    \/ type_code \in {19, 23, 24, 25} /\ Len(buffer) < 8
    \/ type_code \in 23..25 /\ Len(buffer) >= 8 /\ RowBitmapsCut(type_code, buffer)

\* C16: a body shorter than the layout its decoder reads (here: the fixed-width
\* table id and flags of a row or Table-Map event, the ceil(N/8)-byte bitmaps
\* of a row event) makes the decoder return the typed error result.
C16_TruncatedBodyIsError ==
    [][(/\ pc = "body"
        /\ BodyReadable
        /\ TruncatedLayout(header.type_code, CurrentBody))
       => status' = "error"]_vars

\* The type codes get_event_body has a decoder for.
DecodedTypes == {2, 4, 5, 13, 14, 15, 16, 19, 23, 24, 25, 38, 160, 161, 162, 163, 164}

\* The unknown/skipped variant carrying the type code.
SkipVariant(type_code) == [type_code |-> type_code, skip |-> TRUE]

\* C17: a body of one of the seventeen decoded types, when its decoding
\* succeeds, is printed as the variant of that very type and never as the
\* skipped variant; a body of any other type is printed as the skipped variant
\* carrying the type code whatever its bytes are, the call never fails, and
\* the cursor goes to next_event_position.
C17_Dispatch ==
    [][(pc = "body" /\ BodyReadable)
       => IF header.type_code \in DecodedTypes
          THEN status' \notin {"error", "panic"}
               => /\ Len(emitted') = Len(emitted) + 1
                  /\ emitted'[Len(emitted')].kind = "body"
                  /\ emitted'[Len(emitted')].body.type_code = header.type_code
                  /\ "skip" \notin DOMAIN emitted'[Len(emitted')].body
          ELSE /\ status' \notin {"error", "panic"}
               /\ emitted' = Append(emitted, [kind |-> "body",
                                              body |-> SkipVariant(header.type_code)])
               /\ offset' = ZExt(header.next_event_position, 8)]_vars

\* A skipped event with a body of its own was followed by an event of type 38,
\* printed as its own variant.
C17_SkippedThenDecoded ==
    /\ Len(emitted) = 4
    /\ emitted[1].header.type_code = 255
    /\ emitted[1].header.event_length = FromInt(EVENT_HEADER_LENGTH + 3, 4)
    /\ emitted[2].body = SkipVariant(255)
    /\ emitted[4].body.type_code = 38
    /\ "xid" \in DOMAIN emitted[4].body
    /\ status = "done"

\* The row events printed so far.
RowBodies ==
    {emitted[i].body : i \in {j \in DOMAIN emitted :
        emitted[j].kind = "body" /\ emitted[j].body.type_code \in 23..25}}

\* C18: in a decoded row event columns_used_for_update, null_bitmap_for_update
\* and column_data_for_update are each present exactly when the type code is
\* 24; an UPDATE carries the values of the before-image and, beside them,
\* those of the after-image.
C18_UpdateFieldsIffUpdate ==
    \A b \in RowBodies :
        /\ (b.columns_used_for_update # NoValue) <=> (b.type_code = 24)
        /\ (b.null_bitmap_for_update # NoValue) <=> (b.type_code = 24)
        /\ (b.column_data_for_update # NoValue) <=> (b.type_code = 24)
        /\ b.type_code = 24 =>
              /\ Len(b.columns_used_for_update) = 1
              /\ Len(b.null_bitmap_for_update) = 1
              /\ Len(b.column_data_for_update) = 1
              /\ b.column_data \in Seq([type : STRING, raw : Seq(0..255)])

\* An UPDATE of (1, "h") to (1, NULL) was decoded, after a Write-Rows event of
\* the same table.
C18_UpdateAfterWrite ==
    /\ \E b \in RowBodies :
          /\ b.type_code = 24
          /\ Len(b.column_data) = 2
          /\ Len(b.column_data_for_update[1]) = 1
          /\ b.null_bitmap_for_update[1] # b.null_bitmap
    /\ \E b \in RowBodies : b.type_code = 23

\* The XA fields of a Gtid body are all present.
XaPresent(b) ==
    /\ b.format_id # NoValue
    /\ b.gtid_length # NoValue
    /\ b.bqual_length # NoValue
    /\ b.xid # NoValue

\* The XA fields of a Gtid body are all absent.
XaAbsent(b) ==
    /\ b.format_id = NoValue
    /\ b.gtid_length = NoValue
    /\ b.bqual_length = NoValue
    /\ b.xid = NoValue

\* C19: in a decoded Gtid body commit_id is present exactly when bit 0x02 of
\* the flags is set; format_id, gtid_length, bqual_length and xid are present
\* exactly when bit 0x02 is clear and bit 0x40 or 0x80 is set, the xid being
\* gtid_length + bqual_length bytes long; the two groups are never both
\* present, and with none of the three bits set all five fields are absent.
C19_GtidOptionalFields ==
    (Returned_("deal_type_code_162") /\ output.kind = "ok") =>
        LET b == output.body
            flags == input.buffer[13]
            group == BitSet(flags, 2)
            xa == ~BitSet(flags, 2) /\ (BitSet(flags, 64) \/ BitSet(flags, 128))
        IN  /\ b.flags = flags
            /\ (b.commit_id # NoValue) <=> group
            /\ group => b.commit_id = <<Slice(input.buffer, 13, 21)>>
            /\ IF xa THEN XaPresent(b) ELSE XaAbsent(b)
            /\ xa => /\ b.format_id = <<Slice(input.buffer, 13, 17)>>
                     /\ b.gtid_length = <<input.buffer[18]>>
                     /\ b.bqual_length = <<input.buffer[19]>>
                     /\ Len(b.xid[1]) = b.gtid_length[1] + b.bqual_length[1]
                     /\ b.xid[1] = Slice(input.buffer, 19, 19 + Len(b.xid[1]))
            /\ ~(b.commit_id # NoValue /\ b.xid # NoValue)
            /\ (~BitSet(flags, 2) /\ ~BitSet(flags, 64) /\ ~BitSet(flags, 128))
                    => (b.commit_id = NoValue /\ XaAbsent(b))

\* A body with the group-commit bit and both XA bits set was decoded: it has
\* the commit id alone.
C19_GroupCommitWithXaBits ==
    /\ Returned_("deal_type_code_162")
    /\ output.kind = "ok"
    /\ input.buffer[13] = 194
    /\ output.body.commit_id = <<FromInt(9, 8)>>
    /\ XaAbsent(output.body)

\* The digits and the point of a rendered decimal, without any sign.
Magnitude(text) == SelectSeq(text, LAMBDA c : c \notin {"-", "+"})

\* C20: the packed forms of +x and -x (x not zero) decode to results of equal
\* magnitude, the same digits, that differ in sign.
C20_DecimalSymmetry ==
    (/\ Returned_("bin_to_decimal")
     /\ output.positive.kind = "ok"
     /\ output.negative.kind = "ok"
     /\ \E i \in DOMAIN output.positive.value.raw :
            output.positive.value.raw[i] \notin {"0", "."})
    => /\ Magnitude(output.positive.value.raw) = Magnitude(output.negative.value.raw)
       /\ output.positive.value.raw # output.negative.value.raw

\* YYYY: four digits at least.
Pad04(n) ==
    IF n < 10 THEN <<"0", "0", "0">> \o IntDigits(n)
    ELSE IF n < 100 THEN <<"0", "0">> \o IntDigits(n)
    ELSE IF n < 1000 THEN <<"0">> \o IntDigits(n)
    ELSE IntDigits(n)

\* YYYY-MM-DD HH:MM:SS
CalendarText(v) ==
    Pad04(v.year) \o <<"-">> \o Pad02(v.month) \o <<"-">> \o Pad02(v.day) \o <<" ">>
        \o Pad02(v.hour) \o <<":">> \o Pad02(v.minute) \o <<":">> \o Pad02(v.second)

\* The column decoder returned from a call on one column of the given type.
ReturnedColumn(name) ==
    /\ Returned_("parse_column_data_for_row_event")
    /\ input.table_info.column_types_string_for_human = <<name>>

\* C21: the five-byte payload of every calendar value decodes to exactly the
\* string YYYY-MM-DD HH:MM:SS of that value, and five bytes are consumed.
C21_Datetime2RoundTrip ==
    ReturnedColumn("MYSQL_TYPE_DATETIME2") =>
        \A v \in DatetimeValues :
            input.buffer = Datetime2Encode(v) =>
                /\ output.kind = "ok"
                /\ Len(output.column_data) = 1
                /\ output.column_data[1].raw = CalendarText(v)
                /\ output.skip = 5

\* The i-th thing printed is a header (odd i) read from the 19 bytes at the
\* cursor, which is 4 for the first one and the previous header's
\* next_event_position for the others.
HeaderAtCursor(i) ==
    /\ emitted[i].kind = "header"
    /\ emitted[i].at = (IF i = 1 THEN FromInt(4, 8)
                        ELSE ZExt(emitted[i - 2].header.next_event_position, 8))
    /\ get_event_header(file, emitted[i].at).kind = "ok"
    /\ emitted[i].header = get_event_header(file, emitted[i].at).header

\* The i-th thing printed is a body (even i), decoded from the
\* event_length - 19 bytes that follow the header printed before it (for the
\* types whose decoding does not depend on the registry, the very body the
\* decoder gives for those bytes).
BodyAfterHeader(i) ==
    /\ emitted[i].kind = "body"
    /\ emitted[i].body.type_code = emitted[i - 1].header.type_code
    /\ LET h == emitted[i - 1].header
           start == Val(emitted[i - 1].at) + EVENT_HEADER_LENGTH
           end == Val(emitted[i - 1].at) + Val(h.event_length)
       IN  /\ IsSmall(h.event_length)
           /\ SliceOk(file, start, end)
           /\ h.type_code \notin {19, 23, 24, 25} =>
                 emitted[i].body = Dispatch(Slice(file, start, end), h.type_code, <<>>).body

ProtocolFollowed ==
    \A i \in DOMAIN emitted : IF i % 2 = 1 THEN HeaderAtCursor(i) ELSE BodyAfterHeader(i)

\* Every header was read at a higher offset than the one before it.
OnDiskOrder ==
    \A i \in DOMAIN emitted :
        (i % 2 = 1 /\ i >= 3) => NumLess(emitted[i - 2].at, emitted[i].at)

\* C22: the first header is read at offset 4; every header is the 19 bytes at
\* the cursor, its body the event_length - 19 bytes after it, header and body
\* are printed in that order, the next cursor is the header's
\* next_event_position, and the events come out strictly in on-disk order.
C22_IteratorProtocol == ProtocolFollowed /\ OnDiskOrder

\* The call was on a column c followed by a TINY column, both not NULL, with
\* the value of c and then the byte 77 in the buffer.
FollowedByTiny(c) ==
    /\ Returned_("parse_column_data_for_row_event")
    /\ input.table_info = TableInfo(<<c.name, "MYSQL_TYPE_TINY">>, c.metas)
    /\ input.null_bitmap = <<FALSE, FALSE>>
    /\ Len(input.buffer) > Len(c.bytes)
    /\ SubSeq(input.buffer, 1, Len(c.bytes) + 1) = c.bytes \o <<77>>

\* C23: after a non-NULL column the offset has advanced by exactly that
\* column's encoded size, so the next column is read from the byte that
\* follows the value: the TINY column after it has the value 77 and the two
\* columns consume the size of the first plus one.
C23_ColumnsBackToBack ==
    \A c \in EncodedColumns :
        FollowedByTiny(c) =>
            /\ output.kind = "ok"
            /\ Len(output.column_data) = 2
            /\ output.column_data[2].raw = <<77>>
            /\ output.skip = Len(c.bytes) + 1

RECURSIVE StripLeadingZeros(_)
StripLeadingZeros(t) ==
    IF t # <<>> /\ t[1] = "0" THEN StripLeadingZeros(Tail(t)) ELSE t

RECURSIVE StripTrailingZeros(_)
StripTrailingZeros(t) ==
    IF t # <<>> /\ t[Len(t)] = "0" THEN StripTrailingZeros(SubSeq(t, 1, Len(t) - 1))
    ELSE t

\* The digits of n in at least w places.
RECURSIVE PadLeft(_, _)
PadLeft(t, w) == IF Len(t) >= w THEN t ELSE PadLeft(<<"0">> \o t, w)

\* A text with exactly one point that shows the magnitude ip + fp / 10^decimals:
\* zeros in front of the integer digits and behind the fractional digits do
\* not count.
ShowsMagnitude(text, ip, fp, decimals) ==
    \E i \in DOMAIN text :
        /\ text[i] = "."
        /\ StripLeadingZeros(SubSeq(text, 1, i - 1)) = StripLeadingZeros(IntDigits(ip))
        /\ StripTrailingZeros(SubSeq(text, i + 1, Len(text)))
                = StripTrailingZeros(PadLeft(IntDigits(fp), decimals))

\* bin_to_decimal returned from calls on the packed forms of +x and -x for the
\* value v.
ReturnedDecimal(v) ==
    /\ Returned_("bin_to_decimal")
    /\ input.precision = v.precision
    /\ input.decimals = v.decimals
    /\ Len(input.buffer) >= Len(DecimalEncode(v.precision, v.decimals, v.ip, v.fp))
    /\ SubSeq(input.buffer, 1, Len(DecimalEncode(v.precision, v.decimals, v.ip, v.fp)))
            = DecimalEncode(v.precision, v.decimals, v.ip, v.fp)

\* C24: decoding the packed form of a DECIMAL(P,D) value x, positive or
\* negative, consumes B_i + B_f bytes and yields the integer digits of |x|, a
\* point and the fractional digits of |x|: a text of the same magnitude as x.
C24_DecimalMagnitude ==
    \A v \in DecimalValues :
        ReturnedDecimal(v) =>
            /\ output.positive.kind = "ok"
            /\ output.negative.kind = "ok"
            /\ output.positive.skip
                    = parse_quantity_of_bytes_for_decimal_part(v.precision - v.decimals)
                      + parse_quantity_of_bytes_for_decimal_part(v.decimals)
            /\ output.negative.skip = output.positive.skip
            /\ ShowsMagnitude(output.positive.value.raw, v.ip, v.fp, v.decimals)
            /\ ShowsMagnitude(output.negative.value.raw, v.ip, v.fp, v.decimals)

\* The digits t show the number n (zeros in front do not count).
ShowsNumber(t, n) == StripLeadingZeros(t) = StripLeadingZeros(IntDigits(n))

\* A text hour:minute:second of the three numbers.
ShowsTime(text, hour, minute, second) ==
    \E i \in DOMAIN text : \E j \in DOMAIN text :
        /\ i < j
        /\ text[i] = ":"
        /\ text[j] = ":"
        /\ ShowsNumber(SubSeq(text, 1, i - 1), hour)
        /\ ShowsNumber(SubSeq(text, i + 1, j - 1), minute)
        /\ ShowsNumber(SubSeq(text, j + 1, Len(text)), second)

\* | u - 0x800000 |
AbsTime2(u) == IF u < 8388608 THEN 8388608 - u ELSE u - 8388608

\* C25: every three-byte TIME2 payload, big-endian u, also below 0x800000, is
\* decoded with v = |u - 0x800000| to hour (v >> 12) mod 1024, minute
\* (v >> 6) mod 64 and second v mod 64, and three bytes are consumed.
C25_Time2Decoded ==
    ReturnedColumn("MYSQL_TYPE_TIME2") =>
        LET u == input.buffer[1] * 65536 + input.buffer[2] * 256 + input.buffer[3]
        IN  /\ output.kind = "ok"
            /\ output.skip = 3
            /\ Len(output.column_data) = 1
            /\ ShowsTime(output.column_data[1].raw,
                         (AbsTime2(u) \div 4096) % 1024,
                         (AbsTime2(u) \div 64) % 64,
                         AbsTime2(u) % 64)

\* The payload p was given to a BLOB column with the length-of-length k after
\* its length in kk bytes.
BlobCalled(k, kk, p) ==
    /\ ReturnedColumn("MYSQL_TYPE_BLOB")
    /\ input.table_info.metadata_block_data_raw = <<(<<k>>)>>
    /\ Len(input.buffer) >= kk + Len(p)
    /\ SubSeq(input.buffer, 1, kk + Len(p)) = Prefixed(kk, p)

\* C26: a BLOB with length-of-length K in 1..4 has its length in the next K
\* bytes, little-endian; K + length bytes are consumed and the payload is
\* rendered as text when it is valid UTF-8 and as base64 otherwise.  With K
\* outside 1..4 the decoder returns the typed error.
C26_BlobDecoded ==
    \A k \in {0, 1, 2, 3, 4, 5, 255} : \A p \in BlobPayloads :
        /\ (k \in 1..4 /\ BlobCalled(k, k, p)) =>
              /\ output.kind = "ok"
              /\ output.skip = k + Len(p)
              /\ Len(output.column_data) = 1
              /\ output.column_data[1].raw
                    = (IF Utf8Valid(p) THEN IsStringPrefix \o p \o <<96>>
                       ELSE NotStringPrefix \o Base64(p))
        /\ (k \notin 1..4 /\ BlobCalled(k, 1, p)) => output.kind = "err"

\* The positions in the printed output of the decoded Table-Map bodies.
TableMapsPrinted ==
    {i \in DOMAIN emitted : emitted[i].kind = "body" /\ emitted[i].body.type_code = 19}

\* The bytes of the body printed at position i: they follow the header printed
\* just before it.
BodyBytes(i) ==
    LET h == emitted[i - 1]
        start == Val(h.at) + EVENT_HEADER_LENGTH
    IN  Slice(file, start, start + Val(BodyLength(h.header.event_length).value))

\* Where the metadata block of the Table-Map body b ends: the table id and the
\* reserved bytes, the two NUL-terminated names with their length bytes, and
\* the column types and the metadata block, each behind a one-byte count.
MetadataEnd(b) ==
    8 + (1 + Len(b.database_name) + 1) + (1 + Len(b.table_name) + 1)
      + (1 + Val(b.number_of_columns)) + (1 + Val(b.number_of_metadata_block))

\* C27: in a decoded Table-Map of N columns the nullability bitmap is the
\* ceil(N/8) bytes after the metadata block, decoded to exactly N flags, and
\* the stored optional metadata is exactly the bytes after the bitmap.
C27_OptionalMetadataAfterBitmap ==
    \A i \in TableMapsPrinted :
        LET b == emitted[i].body
            N == Val(b.number_of_columns)
            bitmap_at == MetadataEnd(b)
            bitmap_end == bitmap_at + ((N + 7) \div 8)
        IN  /\ Len(b.columns_can_be_null) = N
            /\ b.columns_can_be_null
                  = parse_bitmap(Slice(BodyBytes(i), bitmap_at, bitmap_end),
                                 b.number_of_columns)
            /\ b.optional_metadata_block = Tail_(BodyBytes(i), bitmap_end)

\* The positions in the printed output of the decoded Query bodies.
QueriesPrinted ==
    {i \in DOMAIN emitted : emitted[i].kind = "body" /\ emitted[i].body.type_code = 2}

\* The bytes a status variable takes in the block: its code and its payload,
\* which for a time zone or a catalogue name starts with a length byte.
StatusBytes(v) ==
    <<v.code>> \o (IF v.code \in {5, 6} THEN <<Len(v.raw)>> \o v.raw ELSE v.raw)

RECURSIVE StatusBlock(_)
StatusBlock(results) ==
    IF results = <<>> THEN <<>>
    ELSE StatusBytes(Head(results)) \o StatusBlock(Tail(results))

\* C28: in a decoded Query the status variables, in their order, take up
\* exactly the L_s bytes of the status block (each payload lying inside the
\* block); the database name is the next L_d bytes and one NUL, and the SQL
\* text is the body from there up to its last 5 bytes.
C28_QueryLayout ==
    \A i \in QueriesPrinted :
        LET b == emitted[i].body
            buffer == BodyBytes(i)
            L_d == buffer[9]
            L_s == buffer[12] + 256 * buffer[13]
            name_at == 13 + L_s
            sql_at == name_at + L_d + 1
        IN  /\ b.length_of_status_variable_block = L_s
            /\ StatusBlock(b.status_variables_string_vec_for_human)
                  = Slice(buffer, 13, name_at)
            /\ b.database_name = TrimNul(Slice(buffer, name_at, sql_at))
            /\ b.sql = Slice(buffer, sql_at, Len(buffer) - 5)

\* A Query was decoded whose status block holds a time zone, an invoker and a
\* table-map-for-update byte, three variables of 5, 5 and 2 bytes.
C28_ThreeStatusVariables ==
    \E i \in QueriesPrinted :
        LET b == emitted[i].body IN
            /\ b.status_variables = ZoneInvokerBlock
            /\ Len(b.status_variables_string_vec_for_human) = 3
            /\ b.status_variables_string_vec_for_human[1].raw = <<85, 84, 67>>
            /\ b.status_variables_string_vec_for_human[3].code = 9
            /\ b.database_name = <<100>>
            /\ b.sql = <<115>>

\* The columns of the vector that have a metadata entry, in their order.
WithMetadata(column_types) ==
    SelectSeq([i \in 1..Len(column_types) |-> i],
              LAMBDA i : MetadataWidth(column_types[i]) # 0)

\* C29: for any column-type vector the entry stored for the j-th column with a
\* metadata width w_j > 0 is the bytes [s_j, s_j + w_j) of the metadata block,
\* s_j being the sum of the widths of the columns before it, also when the
\* widths sum to more than 255; a column of width 0 stores no entry.
C29_MetadataEntries ==
    Returned_("parse_metadata_block") =>
        LET cols == WithMetadata(input.column_types) IN
            /\ output.kind = "ok"
            /\ Len(output.raw) = Len(cols)
            /\ \A j \in 1..Len(cols) :
                  output.raw[j]
                      = Slice(input.buffer,
                              WidthSum(input.column_types, cols[j] - 1),
                              WidthSum(input.column_types, cols[j]))

\* The decoding of a Table-Map body has failed in this step.
TableMapFails ==
    /\ pc = "body"
    /\ header.type_code = 19
    /\ status' \in {"error", "panic"}

====
